---- MODULE Spec2Model ----
(***************************************************************************)
(* A model of the patent-detector service code:                            *)
(*   - extractPdfWithPages   (src/lib/supabase.ts)                         *)
(*   - callClaude            (src/lib/competitor-research.ts)              *)
(*   - searchUSPTOPatents    (src/lib/uspto-search.ts)                     *)
(*   - fetchPatentXml        (src/lib/uspto-search.ts)                     *)
(*   - researchAndAnalyzeCompetitor (src/lib/competitor-research.ts)       *)
(* Each function is a state machine whose steps are its awaited calls; the *)
(* answers of the external services are chosen nondeterministically.       *)
(* Strings are sequences of one-character strings.                         *)
(***************************************************************************)
EXTENDS Integers, Sequences, FiniteSets, TLC

VARIABLES
    \* ---- extractPdfWithPages ----
    ocr_pc,        \* position in the function
    attempts,      \* the poll counter `attempts`
    jobComplete,   \* the flag `jobComplete`
    allBlocks,     \* the list `allBlocks`
    nextToken,     \* whether `nextToken` is set
    ocr_pending,   \* completion of the try/catch part, held while finally runs
    ocr_outcome,   \* what the caller observes
    ocr_deletes,   \* DeleteObject requests sent (history)
    ocr_calls,     \* requests other than the delete sent after the delete (history)
    ocr_tokens,    \* continuation requests sent (history)
    ocr_polls,     \* job-status polls sent (history)
    ocr_deleteOk,  \* how the delete ended: "none", "ok" or "failed" (history)
    ocr_lastStatus \* JobStatus and StatusMessage of the last poll answered (history)

ocrVars == <<ocr_pc, attempts, jobComplete, allBlocks, nextToken, ocr_pending,
             ocr_outcome, ocr_deletes, ocr_calls, ocr_tokens, ocr_polls,
             ocr_deleteOk, ocr_lastStatus>>

VARIABLES
    \* ---- callClaude ----
    cl_pc,         \* position in the function
    cl_apiKey,     \* whether ANTHROPIC_API_KEY is set
    cl_attempt,    \* the loop variable `attempt`
    cl_outcome,    \* what the caller observes
    cl_requests,   \* POST requests sent (history)
    cl_429s,       \* requests answered 429 (history)
    cl_waits,      \* the waits inserted, in ms, in order (history)
    cl_headers,    \* the retry-after header of the answer before each wait (history)
    cl_last        \* the last answer received (history)

clVars == <<cl_pc, cl_apiKey, cl_attempt, cl_outcome, cl_requests, cl_429s,
            cl_waits, cl_headers, cl_last>>

VARIABLES
    \* ---- searchUSPTOPatents ----
    sr_pc,         \* position in the function
    companyNames,  \* the argument `companyNames`
    sr_i,          \* index of the name being queried (1-based)
    allPatents,    \* the list `allPatents`
    seenAppNums,   \* the set `seenAppNums`
    sr_result,     \* the returned list, once returned
    sr_first,      \* per application number, its first record in query order (history)
    sr_firstKept,  \* per application number, its first record that was eligible (history)
    sr_variants,   \* per application number, the names whose queries answered it (history)
    sr_phrase      \* names for which the quoted-phrase query was sent (history)

srVars == <<sr_pc, companyNames, sr_i, allPatents, seenAppNums, sr_result,
            sr_first, sr_firstKept, sr_variants, sr_phrase>>

VARIABLES
    \* ---- fetchPatentXml ----
    xml_pc,        \* position in the function
    patentNumber,  \* whether the argument `patentNumber` is given
    publicationNumber, \* whether the argument `publicationNumber` is given
    xml_product,   \* the loop variable `product`
    xml_files,     \* files of files.slice(0, 3) still to fetch
    xml_detail,    \* tryDirectXmlLookup's grantDate, filingDate, pn and pubNum
    xml_outcome,   \* what the caller observes
    xml_trace,     \* the requests sent, in order, with their answers (history)
    xml_last       \* the answer to the XML fetch of the last step, if it was one (history)

xmlVars == <<xml_pc, patentNumber, publicationNumber, xml_product, xml_files,
             xml_detail, xml_outcome, xml_trace, xml_last>>

VARIABLES
    \* ---- researchAndAnalyzeCompetitor and the store ----
    pl_pc,         \* position in the function
    existingCompetitorId, \* the option `existingCompetitorId` (NoId when absent)
    competitorId,  \* the variable `competitorId`
    competitorName, \* the variable `competitorName`
    research,      \* the object `research`
    pl_i,          \* index of the product or patent being processed (1-based)
    productsAdded, \* the counter `productsAdded`
    patentsFound,  \* the counter `patentsFound`
    pl_patents,    \* the list `patents` answered by searchUSPTOPatents
    analysis,      \* the object `analysis`
    competitors,   \* ids of the rows of table competitors
    competitor_documents, \* rows of table competitor_documents, in insertion order
    analyses,      \* the rows of table analyses
    pl_outcome,    \* what the caller observes
    researchText,  \* what became of the research call's text (history)
    analysisText,  \* what became of the analysis call's text (history)
    analysisError, \* whether the upsert of the analysis reported an error (history)
    pl_before,     \* table analyses as the run found it (history)
    pl_checks      \* for each product document of the run: its URL check (history)

VARIABLES
    \* ---- parseJsonResponse ----
    pj_pc,         \* "call" before the call, "done" after it
    pj_text,       \* the argument `text`
    pj_outcome     \* the value returned, or the raise

pjVars == <<pj_pc, pj_text, pj_outcome>>

VARIABLES
    \* ---- extractClaimsFromXml ----
    cx_pc,         \* "call" before the call, "done" after it
    cx_xml,        \* the argument `xml`
    cx_claims      \* the list returned

cxVars == <<cx_pc, cx_xml, cx_claims>>

VARIABLES
    \* ---- the competitors and competitor_documents tables ----
    st_competitors,   \* the ids of the competitor rows
    st_created,       \* how many competitor rows were ever inserted
    st_docs,          \* competitor_documents: the row of each id ever given out
    st_viewed,        \* whether the viewer has read a competitor document
    st_cascade        \* whether the store's schema holds the foreign key of
                      \* competitor_documents, deleting on cascade, that the
                      \* delete route names in its comment

stVars == <<st_competitors, st_created, st_docs, st_viewed, st_cascade>>

VARIABLES
    \* ---- the patents table ----
    pt_patent,        \* a row of the table: its status, and whether it holds
                      \* xml_content
    pt_view           \* per request to the XML viewer for that row, where the
                      \* request stands

ptVars == <<pt_patent, pt_view>>

VARIABLES
    \* ---- discoverProductUrls ----
    dp_pc,         \* "call" before the call, "done" after it
    dp_response,   \* what the fetch of the site does
    dp_html,       \* the anchors of the page, in page order
    dp_outcome     \* the list returned, or the raise

dpVars == <<dp_pc, dp_response, dp_html, dp_outcome>>

VARIABLES
    \* ---- the batch handlers (research-batch, onboarding process-competitor) ----
    bt_pc,         \* position in the handler
    bt_handler,    \* which of the two routes was called
    bt_readable,   \* whether request.json() can read the body
    bt_user,       \* whether resolveUserId finds the user (onboarding)
    bt_competitors, \* the names of the competitors of the request, in order
    bt_i,          \* index of the competitor being processed (1-based)
    bt_results,    \* the array `results`
    bt_fates,      \* what happened while each competitor was processed (history)
    bt_response    \* the response sent

btVars == <<bt_pc, bt_handler, bt_readable, bt_user, bt_competitors, bt_i, bt_results, bt_fates, bt_response>>

VARIABLES
    \* ---- extractAbstractFromXml, extractDescriptionFromXml ----
    fx_pc,         \* "call" before the calls, "done" after them
    fx_xml,        \* the argument `xml`
    fx_abstract,   \* the text extractAbstractFromXml returned
    fx_description \* the text extractDescriptionFromXml returned

fxVars == <<fx_pc, fx_xml, fx_abstract, fx_description>>

VARIABLES
    \* ---- resolvePatentIdentifiers ----
    rs_pc,         \* position in the function
    rs_patent,     \* the argument `patent`
    rs_detail,     \* what the detail request did, if it was made (history)
    rs_outcome     \* the record returned, or the raise

rsVars == <<rs_pc, rs_patent, rs_detail, rs_outcome>>

VARIABLES
    \* ---- two runs of researchAndAnalyzeCompetitor for one competitor ----
    rn_pc,            \* each run's position in steps 3 and 4
    rn_i,             \* each run's loop index
    rn_productsAdded, \* each run's counter productsAdded
    rn_patentsFound,  \* each run's counter patentsFound
    rn_research,      \* the research result both runs receive
    rn_patents,       \* the registry results both runs receive
    rn_docs,          \* the competitor_documents table, shared by the runs
    rn_first,         \* the run that began first, none before (history)
    rn_overlap,       \* a run began while the other was under way (history)
    rn_checkFailed,   \* the runs one of whose existence queries failed (history)
    rn_insertFailed   \* the runs one of whose inserts failed (history)

rnVars == <<rn_pc, rn_i, rn_productsAdded, rn_patentsFound, rn_research, rn_patents,
            rn_docs, rn_first, rn_overlap, rn_checkFailed, rn_insertFailed>>

plVars == <<pl_pc, existingCompetitorId, competitorId, competitorName, research, pl_i,
            productsAdded, patentsFound, pl_patents, analysis, competitors,
            competitor_documents, analyses, pl_outcome, researchText, analysisText,
            analysisError, pl_before, pl_checks>>

vars == <<ocrVars, clVars, srVars, xmlVars, plVars, pjVars, cxVars, stVars, dpVars, btVars, fxVars, rsVars, rnVars, ptVars>>

\* Frames: a step of one function leaves the state of the others alone.
OcrOnly == UNCHANGED <<clVars, srVars, xmlVars, plVars, pjVars, cxVars, stVars, dpVars, btVars, fxVars, rsVars, rnVars, ptVars>>
ClaudeOnly == UNCHANGED <<ocrVars, srVars, xmlVars, plVars, pjVars, cxVars, stVars, dpVars, btVars, fxVars, rsVars, rnVars, ptVars>>
SearchOnly == UNCHANGED <<ocrVars, clVars, xmlVars, plVars, pjVars, cxVars, stVars, dpVars, btVars, fxVars, rsVars, rnVars, ptVars>>
XmlOnly == UNCHANGED <<ocrVars, clVars, srVars, plVars, pjVars, cxVars, stVars, dpVars, btVars, fxVars, rsVars, rnVars, ptVars>>
PipelineOnly == UNCHANGED <<ocrVars, clVars, srVars, xmlVars, pjVars, cxVars, stVars, dpVars, btVars, fxVars, rsVars, rnVars, ptVars>>
ParseOnly == UNCHANGED <<ocrVars, clVars, srVars, xmlVars, plVars, cxVars, stVars, dpVars, btVars, fxVars, rsVars, rnVars, ptVars>>
ClaimsOnly == UNCHANGED <<ocrVars, clVars, srVars, xmlVars, plVars, pjVars, stVars, dpVars, btVars, fxVars, rsVars, rnVars, ptVars>>
StoreOnly == UNCHANGED <<ocrVars, clVars, srVars, xmlVars, plVars, pjVars, cxVars, dpVars, btVars, fxVars, rsVars, rnVars, ptVars>>
DiscoverOnly == UNCHANGED <<ocrVars, clVars, srVars, xmlVars, plVars, pjVars, cxVars, stVars, btVars, fxVars, rsVars, rnVars, ptVars>>
BatchOnly == UNCHANGED <<ocrVars, clVars, srVars, xmlVars, plVars, pjVars, cxVars, stVars, dpVars, fxVars, rsVars, rnVars, ptVars>>
FieldsOnly == UNCHANGED <<ocrVars, clVars, srVars, xmlVars, plVars, pjVars, cxVars, stVars, dpVars, btVars, rsVars, rnVars, ptVars>>
ResolveOnly == UNCHANGED <<ocrVars, clVars, srVars, xmlVars, plVars, pjVars, cxVars, stVars, dpVars, btVars, fxVars, rnVars, ptVars>>
RunsOnly == UNCHANGED <<ocrVars, clVars, srVars, xmlVars, plVars, pjVars, cxVars, stVars, dpVars, btVars, fxVars, rsVars, ptVars>>
PatentsOnly == UNCHANGED <<ocrVars, clVars, srVars, xmlVars, plVars, pjVars, cxVars, stVars, dpVars, btVars, fxVars, rsVars, rnVars>>

----------------------------------------------------------------------------
(* Strings                                                                 *)

\* The characters of the class \s of a JavaScript regular expression, which
\* are also the ones trim() strips: the white space and line terminator
\* characters. A string is a sequence of characters; a character that
\* cannot be written in a string here is written as its JavaScript escape.
WhiteSpace ==
    { " ", "\n", "\t", "\r", "\f", "\\v", "\\u00A0", "\\u1680", "\\u2000", "\\u2001",
      "\\u2002", "\\u2003", "\\u2004", "\\u2005", "\\u2006", "\\u2007", "\\u2008",
      "\\u2009", "\\u200A", "\\u2028", "\\u2029", "\\u202F", "\\u205F", "\\u3000",
      "\\uFEFF" }

IsWs(c) == c \in WhiteSpace

RECURSIVE DropWs(_)
DropWs(s) == IF s = <<>> THEN <<>>
             ELSE IF IsWs(Head(s)) THEN DropWs(Tail(s)) ELSE s

\* s.replace(/\s+/g, ' ')
RECURSIVE CollapseWs(_)
CollapseWs(s) ==
    IF s = <<>> THEN <<>>
    ELSE IF IsWs(Head(s)) THEN <<" ">> \o CollapseWs(DropWs(s))
    ELSE <<Head(s)>> \o CollapseWs(Tail(s))

RECURSIVE DropWsEnd(_)
DropWsEnd(s) == IF s = <<>> THEN <<>>
                ELSE IF IsWs(s[Len(s)]) THEN DropWsEnd(SubSeq(s, 1, Len(s) - 1))
                ELSE s

\* s.trim()
Trim(s) == DropWsEnd(DropWs(s))

\* parts.join(sep)
RECURSIVE Join(_, _)
Join(parts, sep) ==
    IF parts = <<>> THEN <<>>
    ELSE IF Len(parts) = 1 THEN parts[1]
    ELSE parts[1] \o sep \o Join(Tail(parts), sep)

\* The characters of a text are UTF-16 code units. A printable ASCII
\* character is written as itself, tab, line feed, vertical tab, form feed
\* and carriage return as "\t", "\n", "\\v", "\f", "\r", and any other code
\* unit, the grave accent among them, as its escape \uXXXX with upper-case
\* hexadecimal digits.
Ascii ==
    << " ", "!", "\"", "#", "$", "%", "&", "'", "(", ")", "*", "+", ",",
       "-", ".", "/", "0", "1", "2", "3", "4", "5", "6", "7", "8", "9",
       ":", ";", "<", "=", ">", "?", "@", "A", "B", "C", "D", "E", "F",
       "G", "H", "I", "J", "K", "L", "M", "N", "O", "P", "Q", "R", "S",
       "T", "U", "V", "W", "X", "Y", "Z", "[", "\\", "]", "^", "_", "\\u0060",
       "a", "b", "c", "d", "e", "f", "g", "h", "i", "j", "k", "l", "m",
       "n", "o", "p", "q", "r", "s", "t", "u", "v", "w", "x", "y", "z",
       "{", "|", "}", "~" >>

Hex == <<"0", "1", "2", "3", "4", "5", "6", "7", "8", "9", "A", "B", "C", "D", "E", "F">>

Escape(n) ==
    "\\u" \o Hex[(n \div 4096) + 1] \o Hex[((n \div 256) % 16) + 1]
          \o Hex[((n \div 16) % 16) + 1] \o Hex[(n % 16) + 1]

HexValue(h) == (CHOOSE k \in 1..16 : Hex[k] = h) - 1

IsEscape(c) ==
    /\ Len(c) = 6
    /\ SubSeq(c, 1, 2) = "\\u"
    /\ \A k \in 3..6 : \E d \in 1..16 : Hex[d] = SubSeq(c, k, k)

\* The code unit a character stands for; -1 for a token that is no
\* character.
CodeUnit(c) ==
    CASE c = "\t" -> 9
      [] c = "\n" -> 10
      [] c = "\\v" -> 11
      [] c = "\f" -> 12
      [] c = "\r" -> 13
      [] \E i \in 1..95 : Ascii[i] = c -> 31 + (CHOOSE i \in 1..95 : Ascii[i] = c)
      [] IsEscape(c) ->
            4096 * HexValue(SubSeq(c, 3, 3)) + 256 * HexValue(SubSeq(c, 4, 4))
                + 16 * HexValue(SubSeq(c, 5, 5)) + HexValue(SubSeq(c, 6, 6))
      [] OTHER -> -1

\* The character of a code unit.
CharOf(n) ==
    CASE n \in 32..126 -> Ascii[n - 31]
      [] n = 9 -> "\t"
      [] n = 10 -> "\n"
      [] n = 11 -> "\\v"
      [] n = 12 -> "\f"
      [] n = 13 -> "\r"
      [] OTHER -> Escape(n)

IsHighSurrogate(u) == u \in 55296..56319
IsLowSurrogate(u) == u \in 56320..57343

\* The number of code units of the code point that starts at s[i], and of
\* the one that ends at s[i]: two for a surrogate pair.
UnitsAt(s, i) ==
    IF i < Len(s) /\ IsHighSurrogate(CodeUnit(s[i])) /\ IsLowSurrogate(CodeUnit(s[i + 1]))
    THEN 2 ELSE 1

UnitsBefore(s, i) ==
    IF i > 1 /\ IsLowSurrogate(CodeUnit(s[i])) /\ IsHighSurrogate(CodeUnit(s[i - 1]))
    THEN 2 ELSE 1

\* The code point that starts at s[i].
CodePointAt(s, i) ==
    IF UnitsAt(s, i) = 2
    THEN 65536 + (CodeUnit(s[i]) - 55296) * 1024 + (CodeUnit(s[i + 1]) - 56320)
    ELSE CodeUnit(s[i])

\* The code units of a code point.
CodeUnits(cp) ==
    IF cp < 65536 THEN <<CharOf(cp)>>
    ELSE <<CharOf(55296 + ((cp - 65536) \div 1024)), CharOf(56320 + ((cp - 65536) % 1024))>>

\* The simple lower-case mappings of Unicode 17, the version of the runtime's
\* toLowerCase: the code points lo, lo + step, ..., hi map to themselves plus
\* delta, written <<lo, hi, step, delta>>.
LowerRanges ==
    { <<65, 90, 1, 32>>, <<192, 214, 1, 32>>, <<216, 222, 1, 32>>,
      <<256, 302, 2, 1>>, <<306, 310, 2, 1>>, <<313, 327, 2, 1>>,
      <<330, 374, 2, 1>>, <<376, 376, 1, -121>>, <<377, 381, 2, 1>>,
      <<385, 385, 1, 210>>, <<386, 388, 2, 1>>, <<390, 390, 1, 206>>,
      <<391, 391, 1, 1>>, <<393, 394, 1, 205>>, <<395, 395, 1, 1>>,
      <<398, 398, 1, 79>>, <<399, 399, 1, 202>>, <<400, 400, 1, 203>>,
      <<401, 401, 1, 1>>, <<403, 403, 1, 205>>, <<404, 404, 1, 207>>,
      <<406, 406, 1, 211>>, <<407, 407, 1, 209>>, <<408, 408, 1, 1>>,
      <<412, 412, 1, 211>>, <<413, 413, 1, 213>>, <<415, 415, 1, 214>>,
      <<416, 420, 2, 1>>, <<422, 422, 1, 218>>, <<423, 423, 1, 1>>,
      <<425, 425, 1, 218>>, <<428, 428, 1, 1>>, <<430, 430, 1, 218>>,
      <<431, 431, 1, 1>>, <<433, 434, 1, 217>>, <<435, 437, 2, 1>>,
      <<439, 439, 1, 219>>, <<440, 440, 1, 1>>, <<444, 444, 1, 1>>,
      <<452, 452, 1, 2>>, <<453, 453, 1, 1>>, <<455, 455, 1, 2>>,
      <<456, 456, 1, 1>>, <<458, 458, 1, 2>>, <<459, 475, 2, 1>>,
      <<478, 494, 2, 1>>, <<497, 497, 1, 2>>, <<498, 500, 2, 1>>,
      <<502, 502, 1, -97>>, <<503, 503, 1, -56>>, <<504, 542, 2, 1>>,
      <<544, 544, 1, -130>>, <<546, 562, 2, 1>>, <<570, 570, 1, 10795>>,
      <<571, 571, 1, 1>>, <<573, 573, 1, -163>>, <<574, 574, 1, 10792>>,
      <<577, 577, 1, 1>>, <<579, 579, 1, -195>>, <<580, 580, 1, 69>>,
      <<581, 581, 1, 71>>, <<582, 590, 2, 1>>, <<880, 882, 2, 1>>,
      <<886, 886, 1, 1>>, <<895, 895, 1, 116>>, <<902, 902, 1, 38>>,
      <<904, 906, 1, 37>>, <<908, 908, 1, 64>>, <<910, 911, 1, 63>>,
      <<913, 929, 1, 32>>, <<932, 939, 1, 32>>, <<975, 975, 1, 8>>,
      <<984, 1006, 2, 1>>, <<1012, 1012, 1, -60>>, <<1015, 1015, 1, 1>>,
      <<1017, 1017, 1, -7>>, <<1018, 1018, 1, 1>>, <<1021, 1023, 1, -130>>,
      <<1024, 1039, 1, 80>>, <<1040, 1071, 1, 32>>, <<1120, 1152, 2, 1>>,
      <<1162, 1214, 2, 1>>, <<1216, 1216, 1, 15>>, <<1217, 1229, 2, 1>>,
      <<1232, 1326, 2, 1>>, <<1329, 1366, 1, 48>>, <<4256, 4293, 1, 7264>>,
      <<4295, 4295, 1, 7264>>, <<4301, 4301, 1, 7264>>,
      <<5024, 5103, 1, 38864>>, <<5104, 5109, 1, 8>>, <<7305, 7305, 1, 1>>,
      <<7312, 7354, 1, -3008>>, <<7357, 7359, 1, -3008>>,
      <<7680, 7828, 2, 1>>, <<7838, 7838, 1, -7615>>, <<7840, 7934, 2, 1>>,
      <<7944, 7951, 1, -8>>, <<7960, 7965, 1, -8>>, <<7976, 7983, 1, -8>>,
      <<7992, 7999, 1, -8>>, <<8008, 8013, 1, -8>>, <<8025, 8031, 2, -8>>,
      <<8040, 8047, 1, -8>>, <<8072, 8079, 1, -8>>, <<8088, 8095, 1, -8>>,
      <<8104, 8111, 1, -8>>, <<8120, 8121, 1, -8>>, <<8122, 8123, 1, -74>>,
      <<8124, 8124, 1, -9>>, <<8136, 8139, 1, -86>>, <<8140, 8140, 1, -9>>,
      <<8152, 8153, 1, -8>>, <<8154, 8155, 1, -100>>, <<8168, 8169, 1, -8>>,
      <<8170, 8171, 1, -112>>, <<8172, 8172, 1, -7>>,
      <<8184, 8185, 1, -128>>, <<8186, 8187, 1, -126>>,
      <<8188, 8188, 1, -9>>, <<8486, 8486, 1, -7517>>,
      <<8490, 8490, 1, -8383>>, <<8491, 8491, 1, -8262>>,
      <<8498, 8498, 1, 28>>, <<8544, 8559, 1, 16>>, <<8579, 8579, 1, 1>>,
      <<9398, 9423, 1, 26>>, <<11264, 11311, 1, 48>>, <<11360, 11360, 1, 1>>,
      <<11362, 11362, 1, -10743>>, <<11363, 11363, 1, -3814>>,
      <<11364, 11364, 1, -10727>>, <<11367, 11371, 2, 1>>,
      <<11373, 11373, 1, -10780>>, <<11374, 11374, 1, -10749>>,
      <<11375, 11375, 1, -10783>>, <<11376, 11376, 1, -10782>>,
      <<11378, 11378, 1, 1>>, <<11381, 11381, 1, 1>>,
      <<11390, 11391, 1, -10815>>, <<11392, 11490, 2, 1>>,
      <<11499, 11501, 2, 1>>, <<11506, 11506, 1, 1>>, <<42560, 42604, 2, 1>>,
      <<42624, 42650, 2, 1>>, <<42786, 42798, 2, 1>>, <<42802, 42862, 2, 1>>,
      <<42873, 42875, 2, 1>>, <<42877, 42877, 1, -35332>>,
      <<42878, 42886, 2, 1>>, <<42891, 42891, 1, 1>>,
      <<42893, 42893, 1, -42280>>, <<42896, 42898, 2, 1>>,
      <<42902, 42920, 2, 1>>, <<42922, 42922, 1, -42308>>,
      <<42923, 42923, 1, -42319>>, <<42924, 42924, 1, -42315>>,
      <<42925, 42925, 1, -42305>>, <<42926, 42926, 1, -42308>>,
      <<42928, 42928, 1, -42258>>, <<42929, 42929, 1, -42282>>,
      <<42930, 42930, 1, -42261>>, <<42931, 42931, 1, 928>>,
      <<42932, 42946, 2, 1>>, <<42948, 42948, 1, -48>>,
      <<42949, 42949, 1, -42307>>, <<42950, 42950, 1, -35384>>,
      <<42951, 42953, 2, 1>>, <<42955, 42955, 1, -42343>>,
      <<42956, 42970, 2, 1>>, <<42972, 42972, 1, -42561>>,
      <<42997, 42997, 1, 1>>, <<65313, 65338, 1, 32>>,
      <<66560, 66599, 1, 40>>, <<66736, 66771, 1, 40>>,
      <<66928, 66964, 2, 39>>, <<66929, 66937, 2, 39>>,
      <<66941, 66953, 2, 39>>, <<66957, 66961, 2, 39>>,
      <<66965, 66965, 1, 39>>, <<68736, 68786, 1, 64>>,
      <<68944, 68965, 1, 32>>, <<71840, 71871, 1, 32>>,
      <<93760, 93791, 1, 32>>, <<93856, 93880, 1, 27>>,
      <<125184, 125217, 1, 34>> }

\* The cased code points of Unicode 17 that are not case-ignorable, as ranges
\* <<lo, hi>>.
CasedRanges ==
    { <<65, 90>>, <<97, 122>>, <<170, 170>>, <<181, 181>>, <<186, 186>>,
      <<192, 214>>, <<216, 246>>, <<248, 442>>, <<444, 447>>, <<452, 659>>,
      <<662, 687>>, <<880, 883>>, <<886, 887>>, <<891, 893>>, <<895, 895>>,
      <<902, 902>>, <<904, 906>>, <<908, 908>>, <<910, 929>>, <<931, 1013>>,
      <<1015, 1153>>, <<1162, 1327>>, <<1329, 1366>>, <<1376, 1416>>,
      <<4256, 4293>>, <<4295, 4295>>, <<4301, 4301>>, <<4304, 4346>>,
      <<4349, 4351>>, <<5024, 5109>>, <<5112, 5117>>, <<7296, 7306>>,
      <<7312, 7354>>, <<7357, 7359>>, <<7424, 7467>>, <<7531, 7543>>,
      <<7545, 7578>>, <<7680, 7957>>, <<7960, 7965>>, <<7968, 8005>>,
      <<8008, 8013>>, <<8016, 8023>>, <<8025, 8025>>, <<8027, 8027>>,
      <<8029, 8029>>, <<8031, 8061>>, <<8064, 8116>>, <<8118, 8124>>,
      <<8126, 8126>>, <<8130, 8132>>, <<8134, 8140>>, <<8144, 8147>>,
      <<8150, 8155>>, <<8160, 8172>>, <<8178, 8180>>, <<8182, 8188>>,
      <<8450, 8450>>, <<8455, 8455>>, <<8458, 8467>>, <<8469, 8469>>,
      <<8473, 8477>>, <<8484, 8484>>, <<8486, 8486>>, <<8488, 8488>>,
      <<8490, 8493>>, <<8495, 8500>>, <<8505, 8505>>, <<8508, 8511>>,
      <<8517, 8521>>, <<8526, 8526>>, <<8544, 8575>>, <<8579, 8580>>,
      <<9398, 9449>>, <<11264, 11387>>, <<11390, 11492>>, <<11499, 11502>>,
      <<11506, 11507>>, <<11520, 11557>>, <<11559, 11559>>, <<11565, 11565>>,
      <<42560, 42605>>, <<42624, 42651>>, <<42786, 42863>>, <<42865, 42887>>,
      <<42891, 42894>>, <<42896, 42972>>, <<42997, 42998>>, <<43002, 43002>>,
      <<43824, 43866>>, <<43872, 43880>>, <<43888, 43967>>, <<64256, 64262>>,
      <<64275, 64279>>, <<65313, 65338>>, <<65345, 65370>>, <<66560, 66639>>,
      <<66736, 66771>>, <<66776, 66811>>, <<66928, 66938>>, <<66940, 66954>>,
      <<66956, 66962>>, <<66964, 66965>>, <<66967, 66977>>, <<66979, 66993>>,
      <<66995, 67001>>, <<67003, 67004>>, <<68736, 68786>>, <<68800, 68850>>,
      <<68944, 68965>>, <<68976, 68997>>, <<71840, 71903>>, <<93760, 93823>>,
      <<93856, 93880>>, <<93883, 93907>>, <<119808, 119892>>,
      <<119894, 119964>>, <<119966, 119967>>, <<119970, 119970>>,
      <<119973, 119974>>, <<119977, 119980>>, <<119982, 119993>>,
      <<119995, 119995>>, <<119997, 120003>>, <<120005, 120069>>,
      <<120071, 120074>>, <<120077, 120084>>, <<120086, 120092>>,
      <<120094, 120121>>, <<120123, 120126>>, <<120128, 120132>>,
      <<120134, 120134>>, <<120138, 120144>>, <<120146, 120485>>,
      <<120488, 120512>>, <<120514, 120538>>, <<120540, 120570>>,
      <<120572, 120596>>, <<120598, 120628>>, <<120630, 120654>>,
      <<120656, 120686>>, <<120688, 120712>>, <<120714, 120744>>,
      <<120746, 120770>>, <<120772, 120779>>, <<122624, 122633>>,
      <<122635, 122654>>, <<122661, 122666>>, <<125184, 125251>>,
      <<127280, 127305>>, <<127312, 127337>>, <<127344, 127369>> }

\* The case-ignorable code points of Unicode 17, as ranges <<lo, hi>>.
IgnorableRanges ==
    { <<39, 39>>, <<46, 46>>, <<58, 58>>, <<94, 94>>, <<96, 96>>, <<168, 168>>,
      <<173, 173>>, <<175, 175>>, <<180, 180>>, <<183, 184>>, <<688, 879>>,
      <<884, 885>>, <<890, 890>>, <<900, 901>>, <<903, 903>>, <<1155, 1161>>,
      <<1369, 1369>>, <<1375, 1375>>, <<1425, 1469>>, <<1471, 1471>>,
      <<1473, 1474>>, <<1476, 1477>>, <<1479, 1479>>, <<1524, 1524>>,
      <<1536, 1541>>, <<1552, 1562>>, <<1564, 1564>>, <<1600, 1600>>,
      <<1611, 1631>>, <<1648, 1648>>, <<1750, 1757>>, <<1759, 1768>>,
      <<1770, 1773>>, <<1807, 1807>>, <<1809, 1809>>, <<1840, 1866>>,
      <<1958, 1968>>, <<2027, 2037>>, <<2042, 2042>>, <<2045, 2045>>,
      <<2070, 2093>>, <<2137, 2139>>, <<2184, 2184>>, <<2192, 2193>>,
      <<2199, 2207>>, <<2249, 2306>>, <<2362, 2362>>, <<2364, 2364>>,
      <<2369, 2376>>, <<2381, 2381>>, <<2385, 2391>>, <<2402, 2403>>,
      <<2417, 2417>>, <<2433, 2433>>, <<2492, 2492>>, <<2497, 2500>>,
      <<2509, 2509>>, <<2530, 2531>>, <<2558, 2558>>, <<2561, 2562>>,
      <<2620, 2620>>, <<2625, 2626>>, <<2631, 2632>>, <<2635, 2637>>,
      <<2641, 2641>>, <<2672, 2673>>, <<2677, 2677>>, <<2689, 2690>>,
      <<2748, 2748>>, <<2753, 2757>>, <<2759, 2760>>, <<2765, 2765>>,
      <<2786, 2787>>, <<2810, 2815>>, <<2817, 2817>>, <<2876, 2876>>,
      <<2879, 2879>>, <<2881, 2884>>, <<2893, 2893>>, <<2901, 2902>>,
      <<2914, 2915>>, <<2946, 2946>>, <<3008, 3008>>, <<3021, 3021>>,
      <<3072, 3072>>, <<3076, 3076>>, <<3132, 3132>>, <<3134, 3136>>,
      <<3142, 3144>>, <<3146, 3149>>, <<3157, 3158>>, <<3170, 3171>>,
      <<3201, 3201>>, <<3260, 3260>>, <<3263, 3263>>, <<3270, 3270>>,
      <<3276, 3277>>, <<3298, 3299>>, <<3328, 3329>>, <<3387, 3388>>,
      <<3393, 3396>>, <<3405, 3405>>, <<3426, 3427>>, <<3457, 3457>>,
      <<3530, 3530>>, <<3538, 3540>>, <<3542, 3542>>, <<3633, 3633>>,
      <<3636, 3642>>, <<3654, 3662>>, <<3761, 3761>>, <<3764, 3772>>,
      <<3782, 3782>>, <<3784, 3790>>, <<3864, 3865>>, <<3893, 3893>>,
      <<3895, 3895>>, <<3897, 3897>>, <<3953, 3966>>, <<3968, 3972>>,
      <<3974, 3975>>, <<3981, 3991>>, <<3993, 4028>>, <<4038, 4038>>,
      <<4141, 4144>>, <<4146, 4151>>, <<4153, 4154>>, <<4157, 4158>>,
      <<4184, 4185>>, <<4190, 4192>>, <<4209, 4212>>, <<4226, 4226>>,
      <<4229, 4230>>, <<4237, 4237>>, <<4253, 4253>>, <<4348, 4348>>,
      <<4957, 4959>>, <<5906, 5908>>, <<5938, 5939>>, <<5970, 5971>>,
      <<6002, 6003>>, <<6068, 6069>>, <<6071, 6077>>, <<6086, 6086>>,
      <<6089, 6099>>, <<6103, 6103>>, <<6109, 6109>>, <<6155, 6159>>,
      <<6211, 6211>>, <<6277, 6278>>, <<6313, 6313>>, <<6432, 6434>>,
      <<6439, 6440>>, <<6450, 6450>>, <<6457, 6459>>, <<6679, 6680>>,
      <<6683, 6683>>, <<6742, 6742>>, <<6744, 6750>>, <<6752, 6752>>,
      <<6754, 6754>>, <<6757, 6764>>, <<6771, 6780>>, <<6783, 6783>>,
      <<6823, 6823>>, <<6832, 6877>>, <<6880, 6891>>, <<6912, 6915>>,
      <<6964, 6964>>, <<6966, 6970>>, <<6972, 6972>>, <<6978, 6978>>,
      <<7019, 7027>>, <<7040, 7041>>, <<7074, 7077>>, <<7080, 7081>>,
      <<7083, 7085>>, <<7142, 7142>>, <<7144, 7145>>, <<7149, 7149>>,
      <<7151, 7153>>, <<7212, 7219>>, <<7222, 7223>>, <<7288, 7293>>,
      <<7376, 7378>>, <<7380, 7392>>, <<7394, 7400>>, <<7405, 7405>>,
      <<7412, 7412>>, <<7416, 7417>>, <<7468, 7530>>, <<7544, 7544>>,
      <<7579, 7679>>, <<8125, 8125>>, <<8127, 8129>>, <<8141, 8143>>,
      <<8157, 8159>>, <<8173, 8175>>, <<8189, 8190>>, <<8203, 8207>>,
      <<8216, 8217>>, <<8228, 8228>>, <<8231, 8231>>, <<8234, 8238>>,
      <<8288, 8292>>, <<8294, 8303>>, <<8305, 8305>>, <<8319, 8319>>,
      <<8336, 8348>>, <<8400, 8432>>, <<11388, 11389>>, <<11503, 11505>>,
      <<11631, 11631>>, <<11647, 11647>>, <<11744, 11775>>, <<11823, 11823>>,
      <<12293, 12293>>, <<12330, 12333>>, <<12337, 12341>>, <<12347, 12347>>,
      <<12441, 12446>>, <<12540, 12542>>, <<40981, 40981>>, <<42232, 42237>>,
      <<42508, 42508>>, <<42607, 42610>>, <<42612, 42621>>, <<42623, 42623>>,
      <<42652, 42655>>, <<42736, 42737>>, <<42752, 42785>>, <<42864, 42864>>,
      <<42888, 42890>>, <<42993, 42996>>, <<43000, 43001>>, <<43010, 43010>>,
      <<43014, 43014>>, <<43019, 43019>>, <<43045, 43046>>, <<43052, 43052>>,
      <<43204, 43205>>, <<43232, 43249>>, <<43263, 43263>>, <<43302, 43309>>,
      <<43335, 43345>>, <<43392, 43394>>, <<43443, 43443>>, <<43446, 43449>>,
      <<43452, 43453>>, <<43471, 43471>>, <<43493, 43494>>, <<43561, 43566>>,
      <<43569, 43570>>, <<43573, 43574>>, <<43587, 43587>>, <<43596, 43596>>,
      <<43632, 43632>>, <<43644, 43644>>, <<43696, 43696>>, <<43698, 43700>>,
      <<43703, 43704>>, <<43710, 43711>>, <<43713, 43713>>, <<43741, 43741>>,
      <<43756, 43757>>, <<43763, 43764>>, <<43766, 43766>>, <<43867, 43871>>,
      <<43881, 43883>>, <<44005, 44005>>, <<44008, 44008>>, <<44013, 44013>>,
      <<64286, 64286>>, <<64434, 64450>>, <<65024, 65039>>, <<65043, 65043>>,
      <<65056, 65071>>, <<65106, 65106>>, <<65109, 65109>>, <<65279, 65279>>,
      <<65287, 65287>>, <<65294, 65294>>, <<65306, 65306>>, <<65342, 65342>>,
      <<65344, 65344>>, <<65392, 65392>>, <<65438, 65439>>, <<65507, 65507>>,
      <<65529, 65531>>, <<66045, 66045>>, <<66272, 66272>>, <<66422, 66426>>,
      <<67456, 67461>>, <<67463, 67504>>, <<67506, 67514>>, <<68097, 68099>>,
      <<68101, 68102>>, <<68108, 68111>>, <<68152, 68154>>, <<68159, 68159>>,
      <<68325, 68326>>, <<68900, 68903>>, <<68942, 68942>>, <<68969, 68973>>,
      <<68975, 68975>>, <<69291, 69292>>, <<69317, 69317>>, <<69370, 69375>>,
      <<69446, 69456>>, <<69506, 69509>>, <<69633, 69633>>, <<69688, 69702>>,
      <<69744, 69744>>, <<69747, 69748>>, <<69759, 69761>>, <<69811, 69814>>,
      <<69817, 69818>>, <<69821, 69821>>, <<69826, 69826>>, <<69837, 69837>>,
      <<69888, 69890>>, <<69927, 69931>>, <<69933, 69940>>, <<70003, 70003>>,
      <<70016, 70017>>, <<70070, 70078>>, <<70089, 70092>>, <<70095, 70095>>,
      <<70191, 70193>>, <<70196, 70196>>, <<70198, 70199>>, <<70206, 70206>>,
      <<70209, 70209>>, <<70367, 70367>>, <<70371, 70378>>, <<70400, 70401>>,
      <<70459, 70460>>, <<70464, 70464>>, <<70502, 70508>>, <<70512, 70516>>,
      <<70587, 70592>>, <<70606, 70606>>, <<70608, 70608>>, <<70610, 70610>>,
      <<70625, 70626>>, <<70712, 70719>>, <<70722, 70724>>, <<70726, 70726>>,
      <<70750, 70750>>, <<70835, 70840>>, <<70842, 70842>>, <<70847, 70848>>,
      <<70850, 70851>>, <<71090, 71093>>, <<71100, 71101>>, <<71103, 71104>>,
      <<71132, 71133>>, <<71219, 71226>>, <<71229, 71229>>, <<71231, 71232>>,
      <<71339, 71339>>, <<71341, 71341>>, <<71344, 71349>>, <<71351, 71351>>,
      <<71453, 71453>>, <<71455, 71455>>, <<71458, 71461>>, <<71463, 71467>>,
      <<71727, 71735>>, <<71737, 71738>>, <<71995, 71996>>, <<71998, 71998>>,
      <<72003, 72003>>, <<72148, 72151>>, <<72154, 72155>>, <<72160, 72160>>,
      <<72193, 72202>>, <<72243, 72248>>, <<72251, 72254>>, <<72263, 72263>>,
      <<72273, 72278>>, <<72281, 72283>>, <<72330, 72342>>, <<72344, 72345>>,
      <<72544, 72544>>, <<72546, 72548>>, <<72550, 72550>>, <<72752, 72758>>,
      <<72760, 72765>>, <<72767, 72767>>, <<72850, 72871>>, <<72874, 72880>>,
      <<72882, 72883>>, <<72885, 72886>>, <<73009, 73014>>, <<73018, 73018>>,
      <<73020, 73021>>, <<73023, 73029>>, <<73031, 73031>>, <<73104, 73105>>,
      <<73109, 73109>>, <<73111, 73111>>, <<73177, 73177>>, <<73459, 73460>>,
      <<73472, 73473>>, <<73526, 73530>>, <<73536, 73536>>, <<73538, 73538>>,
      <<73562, 73562>>, <<78896, 78912>>, <<78919, 78933>>, <<90398, 90409>>,
      <<90413, 90415>>, <<92912, 92916>>, <<92976, 92982>>, <<92992, 92995>>,
      <<93504, 93506>>, <<93547, 93548>>, <<94031, 94031>>, <<94095, 94111>>,
      <<94176, 94177>>, <<94179, 94180>>, <<94194, 94195>>,
      <<110576, 110579>>, <<110581, 110587>>, <<110589, 110590>>,
      <<113821, 113822>>, <<113824, 113827>>, <<118528, 118573>>,
      <<118576, 118598>>, <<119143, 119145>>, <<119155, 119170>>,
      <<119173, 119179>>, <<119210, 119213>>, <<119362, 119364>>,
      <<121344, 121398>>, <<121403, 121452>>, <<121461, 121461>>,
      <<121476, 121476>>, <<121499, 121503>>, <<121505, 121519>>,
      <<122880, 122886>>, <<122888, 122904>>, <<122907, 122913>>,
      <<122915, 122916>>, <<122918, 122922>>, <<122928, 122989>>,
      <<123023, 123023>>, <<123184, 123197>>, <<123566, 123566>>,
      <<123628, 123631>>, <<124139, 124143>>, <<124398, 124399>>,
      <<124643, 124643>>, <<124646, 124646>>, <<124654, 124655>>,
      <<124661, 124661>>, <<124671, 124671>>, <<125136, 125142>>,
      <<125252, 125259>>, <<127995, 127999>>, <<917505, 917505>>,
      <<917536, 917631>>, <<917760, 917999>> }

IsCased(cp) == \E r \in CasedRanges : cp >= r[1] /\ cp <= r[2]

IsCaseIgnorable(cp) == \E r \in IgnorableRanges : cp >= r[1] /\ cp <= r[2]

Maps(r, cp) == cp >= r[1] /\ cp <= r[2] /\ (cp - r[1]) % r[3] = 0

\* The lower-case mapping of a code point that maps to one code point.
LowerCode(cp) ==
    IF \E r \in LowerRanges : Maps(r, cp)
    THEN cp + (CHOOSE r \in LowerRanges : Maps(r, cp))[4]
    ELSE cp

\* Whether a cased letter stands before position j, or after it, with
\* nothing but case-ignorable characters in between.
RECURSIVE CasedBefore(_, _)
CasedBefore(s, j) ==
    IF j < 1 THEN FALSE
    ELSE LET n == UnitsBefore(s, j)
             cp == CodePointAt(s, j - n + 1)
         IN IF IsCaseIgnorable(cp) THEN CasedBefore(s, j - n) ELSE IsCased(cp)

RECURSIVE CasedAfter(_, _)
CasedAfter(s, j) ==
    IF j > Len(s) THEN FALSE
    ELSE LET cp == CodePointAt(s, j)
         IN IF IsCaseIgnorable(cp) THEN CasedAfter(s, j + UnitsAt(s, j)) ELSE IsCased(cp)

\* The lower case of the code point that starts at s[i]: capital I with dot
\* above becomes i and a combining dot, capital sigma becomes the final
\* sigma at the end of a word, and a character without a mapping, or a
\* token that is no character, is left as it is.
LowerAt(s, i) ==
    LET cp == CodePointAt(s, i)
    IN  CASE cp = 304 -> <<"i", Escape(775)>>
          [] cp = 931 -> IF CasedBefore(s, i - 1) /\ ~CasedAfter(s, i + 1)
                         THEN <<Escape(962)>> ELSE <<Escape(963)>>
          [] cp >= 0 /\ LowerCode(cp) # cp -> CodeUnits(LowerCode(cp))
          [] OTHER -> SubSeq(s, i, i + UnitsAt(s, i) - 1)

RECURSIVE ToLowerFrom(_, _)
ToLowerFrom(s, i) ==
    IF i > Len(s) THEN <<>>
    ELSE LowerAt(s, i) \o ToLowerFrom(s, i + UnitsAt(s, i))

\* s.toLowerCase()
ToLower(s) == ToLowerFrom(s, 1)

\* The i flag of a pattern made of ASCII letters: a letter of the text
\* matches in either case, and no other character matches a letter.
FoldCase(c) == IF CodeUnit(c) \in 65..90 THEN CharOf(CodeUnit(c) + 32) ELSE c

\* s.includes(t)
Includes(s, t) ==
    \E i \in 0..(Len(s) - Len(t)) : SubSeq(s, i + 1, i + Len(t)) = t

RECURSIVE TakeWord(_)
TakeWord(s) == IF s = <<>> \/ IsWs(Head(s)) THEN <<>> ELSE <<Head(s)>> \o TakeWord(Tail(s))

\* the non-empty elements of s.split(/\s+/)
RECURSIVE Words(_)
Words(s) ==
    LET t == DropWs(s)
        w == TakeWord(t)
    IN IF t = <<>> THEN <<>>
       ELSE <<w>> \o Words(SubSeq(t, Len(w) + 1, Len(t)))

----------------------------------------------------------------------------
(* extractPdfWithPages                                                     *)

maxAttempts == 60

MaxPage == 2
MaxBlocks == 2
MaxTokens == 2

Texts == { <<"H", "i">>, <<" ", "a", "\r", " ", "b">> }

\* Page 0 stands for a block without a page number, the empty text for a
\* block without text.
Blocks ==
    [BlockType : {"LINE"}, Page : 0..MaxPage, Text : Texts]
    \cup { [BlockType |-> "WORD", Page |-> 1, Text |-> <<"H", "i">>],
           [BlockType |-> "LINE", Page |-> 1, Text |-> <<>>] }

BlockSeqs(n) == UNION { [1..k -> Blocks] : k \in 0..n }

StatusMessages == { <<>>, <<"b", "a", "d">> }

\* block.BlockType === 'LINE' && block.Page && block.Text
IsLine(b) == b.BlockType = "LINE" /\ b.Page # 0 /\ b.Text # <<>>

RECURSIVE MaxPageOf(_)
MaxPageOf(bs) ==
    IF bs = <<>> THEN 0
    ELSE LET m == MaxPageOf(SubSeq(bs, 1, Len(bs) - 1))
             b == bs[Len(bs)]
         IN IF IsLine(b) /\ b.Page > m THEN b.Page ELSE m

\* pageMap.get(pageNum) || []
RECURSIVE LinesOf(_, _)
LinesOf(bs, p) ==
    IF bs = <<>> THEN <<>>
    ELSE IF IsLine(Head(bs)) /\ Head(bs).Page = p
         THEN <<Head(bs).Text>> \o LinesOf(Tail(bs), p)
         ELSE LinesOf(Tail(bs), p)

\* A variant whose text is the raw text, white space left as it is.
PageOfRaw(bs, pageNum) ==
    LET rawText == Join(LinesOf(bs, pageNum), <<"\n">>)
    IN [pageNumber |-> pageNum, text |-> rawText, rawText |-> rawText]

PageOf(bs, pageNum) ==
    LET rawText == Join(LinesOf(bs, pageNum), <<"\n">>)
    IN [pageNumber |-> pageNum, text |-> Trim(CollapseWs(rawText)), rawText |-> rawText]

\* A variant that emits only the pages present in pageMap.
BuildPagesSparse(bs, totalPages) ==
    SelectSeq([pageNum \in 1..totalPages |-> PageOf(bs, pageNum)],
              LAMBDA pg : pg.rawText # <<>>)

BuildPages(bs, totalPages) == [pageNum \in 1..totalPages |-> PageOf(bs, pageNum)]

PageTexts(pages) == [i \in 1..Len(pages) |-> pages[i].text]

BuildResult(bs) ==
    LET totalPages == MaxPageOf(bs)
        pages == BuildPages(bs, totalPages)
    IN [kind |-> "return", pages |-> pages, totalPages |-> totalPages,
        fullText |-> Join(PageTexts(pages), <<"\n", "\n">>)]

NoOutcome == [kind |-> "none"]

\* the catch block: every error is re-raised with a prefix
Wrapped(message) == [kind |-> "throw", message |-> <<"Failed to extract PDF with Textract: ">> \o message]

FailedError(statusMessage) ==
    <<"Textract job failed: ">> \o (IF statusMessage = <<>> THEN <<"Unknown error">> ELSE statusMessage)

TimeoutError == <<"Textract job timed out after 5 minutes">>

\* A variant whose finally block lets the delete's error escape.
AfterCleanupRethrow(pending, deleteOk) ==
    IF deleteOk THEN pending ELSE [kind |-> "throw", message |-> <<"s3 delete failed">>]

\* the finally block: a failed delete is logged, not raised
AfterCleanup(pending, deleteOk) == pending

OcrUpload ==
    /\ OcrOnly
    /\ ocr_pc = "upload"
    /\ ocr_calls' = ocr_calls + (IF ocr_deletes > 0 THEN 1 ELSE 0)
    /\ \E ok \in BOOLEAN :
         IF ok THEN /\ ocr_pc' = "start"
                    /\ UNCHANGED ocr_pending
         ELSE /\ ocr_pc' = "finally"
              /\ ocr_pending' = Wrapped(<<"s3 put failed">>)
    /\ UNCHANGED <<attempts, jobComplete, allBlocks, nextToken, ocr_outcome,
                   ocr_deletes, ocr_tokens, ocr_polls, ocr_deleteOk, ocr_lastStatus>>

OcrStartJob ==
    /\ OcrOnly
    /\ ocr_pc = "start"
    /\ ocr_calls' = ocr_calls + (IF ocr_deletes > 0 THEN 1 ELSE 0)
    /\ \E answer \in {"jobId", "noJobId", "error"} :
         CASE answer = "jobId" ->
                /\ ocr_pc' = "poll"
                /\ UNCHANGED ocr_pending
           [] answer = "noJobId" ->
                /\ ocr_pc' = "finally"
                /\ ocr_pending' = Wrapped(<<"Failed to start Textract job - no JobId returned">>)
           [] OTHER ->
                /\ ocr_pc' = "finally"
                /\ ocr_pending' = Wrapped(<<"textract start failed">>)
    /\ UNCHANGED <<attempts, jobComplete, allBlocks, nextToken, ocr_outcome,
                   ocr_deletes, ocr_tokens, ocr_polls, ocr_deleteOk, ocr_lastStatus>>

\* A variant of the loop condition that allows one more poll.
PollAgainInclusive(complete, n) == ~complete /\ n <= maxAttempts

\* while (!jobComplete && attempts < maxAttempts)
PollAgain(complete, n) == ~complete /\ n < maxAttempts

\* One iteration of the polling loop, up to the next awaited call.
OcrPoll ==
    /\ OcrOnly
    /\ ocr_pc = "poll"
    /\ PollAgain(jobComplete, attempts)
    /\ attempts' = attempts + 1
    /\ ocr_polls' = ocr_polls + 1
    /\ ocr_calls' = ocr_calls + (IF ocr_deletes > 0 THEN 1 ELSE 0)
    /\ \/ \* the request fails
          /\ ocr_pc' = "finally"
          /\ ocr_pending' = Wrapped(<<"textract get failed">>)
          /\ UNCHANGED <<jobComplete, allBlocks, nextToken, ocr_lastStatus>>
       \/ \E bs \in BlockSeqs(MaxBlocks), more \in BOOLEAN :
          /\ ocr_lastStatus' = [status |-> "SUCCEEDED", message |-> <<>>]
          /\ jobComplete' = TRUE
          /\ allBlocks' = bs
          /\ nextToken' = more
          /\ IF more THEN /\ ocr_pc' = "next"
                          /\ UNCHANGED ocr_pending
             ELSE /\ ocr_pc' = "finally"
                  /\ ocr_pending' = BuildResult(bs)
       \/ \E msg \in StatusMessages :
          /\ ocr_lastStatus' = [status |-> "FAILED", message |-> msg]
          /\ ocr_pc' = "finally"
          /\ ocr_pending' = Wrapped(FailedError(msg))
          /\ UNCHANGED <<jobComplete, allBlocks, nextToken>>
       \/ \E st \in {"IN_PROGRESS", "PARTIAL_SUCCESS"} :
          /\ ocr_lastStatus' = [status |-> st, message |-> <<>>]
          /\ IF PollAgain(jobComplete, attempts')
             THEN /\ ocr_pc' = "poll"
                  /\ UNCHANGED ocr_pending
             ELSE /\ ocr_pc' = "finally"
                  /\ ocr_pending' = Wrapped(TimeoutError)
          /\ UNCHANGED <<jobComplete, allBlocks, nextToken>>
    /\ UNCHANGED <<ocr_outcome, ocr_deletes, ocr_tokens, ocr_deleteOk>>

\* One iteration of the continuation loop `while (nextToken)`.
OcrNextPage ==
    /\ OcrOnly
    /\ ocr_pc = "next"
    /\ nextToken
    /\ ocr_tokens' = ocr_tokens + 1
    /\ ocr_calls' = ocr_calls + (IF ocr_deletes > 0 THEN 1 ELSE 0)
    /\ \/ /\ ocr_pc' = "finally"
          /\ ocr_pending' = Wrapped(<<"textract get failed">>)
          /\ UNCHANGED <<allBlocks, nextToken>>
       \/ \E bs \in BlockSeqs(MaxBlocks - Len(allBlocks)), more \in BOOLEAN :
          /\ more => ocr_tokens' < MaxTokens
          /\ allBlocks' = allBlocks \o bs
          /\ nextToken' = more
          /\ IF more THEN /\ ocr_pc' = "next"
                          /\ UNCHANGED ocr_pending
             ELSE /\ ocr_pc' = "finally"
                  /\ ocr_pending' = BuildResult(allBlocks')
    /\ UNCHANGED <<attempts, jobComplete, ocr_outcome, ocr_deletes, ocr_polls,
                   ocr_deleteOk, ocr_lastStatus>>

OcrCleanup ==
    /\ OcrOnly
    /\ ocr_pc = "finally"
    /\ ocr_deletes' = ocr_deletes + 1
    /\ \E deleteOk \in BOOLEAN :
         /\ ocr_outcome' = AfterCleanup(ocr_pending, deleteOk)
         /\ ocr_deleteOk' = IF deleteOk THEN "ok" ELSE "failed"
    /\ ocr_pc' = "done"
    /\ UNCHANGED <<attempts, jobComplete, allBlocks, nextToken, ocr_pending,
                   ocr_calls, ocr_tokens, ocr_polls, ocr_lastStatus>>

OcrIdle ==
    /\ ocr_pc = "idle"
    /\ attempts = 0
    /\ jobComplete = FALSE
    /\ allBlocks = <<>>
    /\ nextToken = FALSE
    /\ ocr_pending = NoOutcome
    /\ ocr_outcome = NoOutcome
    /\ ocr_deletes = 0
    /\ ocr_calls = 0
    /\ ocr_tokens = 0
    /\ ocr_polls = 0
    /\ ocr_deleteOk = "none"
    /\ ocr_lastStatus = [status |-> "none", message |-> <<>>]

OcrInit ==
    /\ ocr_pc = "upload"
    /\ attempts = 0
    /\ jobComplete = FALSE
    /\ allBlocks = <<>>
    /\ nextToken = FALSE
    /\ ocr_pending = NoOutcome
    /\ ocr_outcome = NoOutcome
    /\ ocr_deletes = 0
    /\ ocr_calls = 0
    /\ ocr_tokens = 0
    /\ ocr_polls = 0
    /\ ocr_deleteOk = "none"
    /\ ocr_lastStatus = [status |-> "none", message |-> <<>>]

OcrNext == OcrUpload \/ OcrStartJob \/ OcrPoll \/ OcrNextPage \/ OcrCleanup

----------------------------------------------------------------------------
(* callClaude                                                              *)

maxRetries == 4

MaxContent == 2

NoHeader == [present |-> FALSE, value |-> <<>>]
Header(v) == [present |-> TRUE, value |-> v]

RetryAfters == { NoHeader, Header(<<"5">>), Header(<<"0">>), Header(<<"1", "2">>), Header(<<>>),
                 Header(<<"W", "e", "d">>), Header(<<"-", "5">>),
                 Header(<<"0", "x", "1", "0">>) }

ContentBlocks == { [type |-> "text", text |-> <<"a">>],
                   [type |-> "text", text |-> <<"b">>],
                   [type |-> "tool_use", text |-> <<>>] }

Contents == UNION { [1..k -> ContentBlocks] : k \in 0..MaxContent }

ErrorStatuses == {400, 500}

Bodies == { <<"o", "v", "e", "r">>, <<>> }

\* A JavaScript number that is an integer, or NaN.
NotANumber == [nan |-> TRUE, value |-> 0]
Number(n) == [nan |-> FALSE, value |-> n]

\* The value of the character c as a digit, -1 when it is none.
DigitValue(c) ==
    CASE c = "0" -> 0 [] c = "1" -> 1 [] c = "2" -> 2 [] c = "3" -> 3 [] c = "4" -> 4
      [] c = "5" -> 5 [] c = "6" -> 6 [] c = "7" -> 7 [] c = "8" -> 8 [] c = "9" -> 9
      [] c \in {"a", "A"} -> 10 [] c \in {"b", "B"} -> 11 [] c \in {"c", "C"} -> 12
      [] c \in {"d", "D"} -> 13 [] c \in {"e", "E"} -> 14 [] c \in {"f", "F"} -> 15
      [] OTHER -> -1

IsDigit(c, radix) == DigitValue(c) >= 0 /\ DigitValue(c) < radix

\* The longest prefix of str made of digits of the radix, read as a number
\* after acc; NaN when there is no digit.
RECURSIVE ParseIntFrom(_, _, _, _)
ParseIntFrom(str, radix, acc, seen) ==
    IF str = <<>> \/ ~IsDigit(Head(str), radix)
    THEN (IF seen THEN Number(acc) ELSE NotANumber)
    ELSE ParseIntFrom(Tail(str), radix, acc * radix + DigitValue(Head(str)), TRUE)

\* parseInt(str) with no radix given: leading white space is skipped, a
\* sign is taken, a prefix 0x or 0X makes the radix 16, and the digits that
\* follow are read up to the first character that is not one.
ParseInt(str) ==
    LET s1 == DropWs(str)
        negative == s1 # <<>> /\ Head(s1) = "-"
        s2 == IF s1 # <<>> /\ Head(s1) \in {"+", "-"} THEN Tail(s1) ELSE s1
        hex == Len(s2) >= 2 /\ s2[1] = "0" /\ s2[2] \in {"x", "X"}
        s3 == IF hex THEN SubSeq(s2, 3, Len(s2)) ELSE s2
        n == ParseIntFrom(s3, IF hex THEN 16 ELSE 10, 0, FALSE)
    IN  IF n.nan THEN NotANumber
        ELSE IF negative THEN Number(0 - n.value) ELSE n

Min(a, b) == IF a < b THEN a ELSE b

\* retryAfter ? parseInt(retryAfter) * 1000 : Math.min(30000 + attempt * 30000, 120000)
WaitMs(retryAfter, attempt) ==
    IF retryAfter.present /\ retryAfter.value # <<>>
    THEN (IF ParseInt(retryAfter.value).nan THEN NotANumber
          ELSE Number(ParseInt(retryAfter.value).value * 1000))
    ELSE Number(Min(30000 + attempt * 30000, 120000))

\* .filter(block => block.type === 'text').map(block => block.text).join('\n')
RECURSIVE TextBlocks(_)
TextBlocks(content) ==
    IF content = <<>> THEN <<>>
    ELSE IF Head(content).type = "text" THEN <<Head(content).text>> \o TextBlocks(Tail(content))
    ELSE TextBlocks(Tail(content))

ResponseText(content) == Join(TextBlocks(content), <<"\n">>)

\* A variant that retries every failed request.
ShouldRetryAnyError(status, attempt) == attempt < maxRetries

\* res.status === 429 && attempt < maxRetries
ShouldRetry(status, attempt) == status = 429 /\ attempt < maxRetries

\* new Error(`Claude API error ${res.status}: ${errText}`)
ApiError(status, body) ==
    [kind |-> "throw", message |-> <<"Claude API error">>, status |-> status, body |-> body]

OtherError(message) == [kind |-> "throw", message |-> message, status |-> 0, body |-> <<>>]

\* lines 85-86: res.text() rejects when the body cannot be read, and the
\* call raises that error in place of the API error.
ErrorOutcome(status, body, readable) ==
    IF readable THEN ApiError(status, body) ELSE OtherError(<<"TypeError">>)

\* What the body of an OK response is to res.json(): an object, with or
\* without a content list, the value null, or a text that is not JSON.
OkBodies == {"object", "noContent", "null", "notJson"}

NoAnswer == [kind |-> "none", status |-> 0, retryAfter |-> NoHeader, body |-> <<>>,
             readable |-> TRUE, json |-> "none", content |-> <<>>]

\* lines 68-72: res.json() rejects for a body that is not JSON, data.content
\* raises for the value null, and a missing content list counts as empty.
OkOutcome(json, content) ==
    CASE json = "notJson" -> OtherError(<<"SyntaxError">>)
      [] json = "null" -> OtherError(<<"TypeError">>)
      [] json = "noContent" -> [kind |-> "return", text |-> ResponseText(<<>>)]
      [] OTHER -> [kind |-> "return", text |-> ResponseText(content)]

ClaudeBegin ==
    /\ ClaudeOnly
    /\ cl_pc = "start"
    /\ IF cl_apiKey
       THEN /\ cl_pc' = "request"
            /\ UNCHANGED cl_outcome
       ELSE /\ cl_pc' = "done"
            /\ cl_outcome' = OtherError(<<"ANTHROPIC_API_KEY not found">>)
    /\ UNCHANGED <<cl_apiKey, cl_attempt, cl_requests, cl_429s, cl_waits, cl_headers, cl_last>>

\* One iteration of the retry loop up to the wait.
ClaudeRequest ==
    /\ ClaudeOnly
    /\ cl_pc = "request"
    /\ cl_attempt <= maxRetries
    /\ cl_requests' = cl_requests + 1
    /\ \/ \* fetch rejects
          /\ cl_last' = [NoAnswer EXCEPT !.kind = "network"]
          /\ cl_pc' = "done"
          /\ cl_outcome' = OtherError(<<"fetch failed">>)
          /\ UNCHANGED cl_429s
       \/ \E json \in OkBodies, content \in Contents :
          /\ json # "object" => content = <<>>
          /\ cl_last' = [NoAnswer EXCEPT !.kind = "response", !.status = 200,
                                         !.json = json, !.content = content]
          /\ cl_pc' = "done"
          /\ cl_outcome' = OkOutcome(json, content)
          /\ UNCHANGED cl_429s
       \/ \* a non-OK answer; its body is read, at line 85, only when the
          \* request is not repeated, and the read may fail
          \E status \in ErrorStatuses \cup {429}, ra \in RetryAfters, body \in Bodies,
             readable \in BOOLEAN :
          /\ status # 429 => ra = NoHeader
          /\ ShouldRetry(status, cl_attempt) => readable
          /\ ~readable => body = <<>>
          /\ cl_last' = [NoAnswer EXCEPT !.kind = "response", !.status = status,
                                         !.retryAfter = ra, !.body = body,
                                         !.readable = readable]
          /\ cl_429s' = cl_429s + (IF status = 429 THEN 1 ELSE 0)
          /\ IF ShouldRetry(status, cl_attempt)
             THEN /\ cl_pc' = "wait"
                  /\ UNCHANGED cl_outcome
             ELSE /\ cl_pc' = "done"
                  /\ cl_outcome' = ErrorOutcome(status, body, readable)
    /\ UNCHANGED <<cl_apiKey, cl_attempt, cl_waits, cl_headers>>

\* await setTimeout(waitMs); continue
ClaudeWait ==
    /\ ClaudeOnly
    /\ cl_pc = "wait"
    /\ cl_waits' = Append(cl_waits, WaitMs(cl_last.retryAfter, cl_attempt))
    /\ cl_headers' = Append(cl_headers, cl_last.retryAfter)
    /\ cl_attempt' = cl_attempt + 1
    /\ IF cl_attempt' <= maxRetries
       THEN /\ cl_pc' = "request"
            /\ UNCHANGED cl_outcome
       ELSE /\ cl_pc' = "done"
            /\ cl_outcome' = OtherError(<<"Max retries exceeded for Claude API">>)
    /\ UNCHANGED <<cl_apiKey, cl_requests, cl_429s, cl_last>>

ClaudeInit ==
    /\ cl_pc = "start"
    /\ cl_apiKey \in BOOLEAN
    /\ cl_attempt = 0
    /\ cl_outcome = [kind |-> "none"]
    /\ cl_requests = 0
    /\ cl_429s = 0
    /\ cl_waits = <<>>
    /\ cl_headers = <<>>
    /\ cl_last = NoAnswer

ClaudeIdle ==
    /\ cl_pc = "idle"
    /\ cl_apiKey = FALSE
    /\ cl_attempt = 0
    /\ cl_outcome = [kind |-> "none"]
    /\ cl_requests = 0
    /\ cl_429s = 0
    /\ cl_waits = <<>>
    /\ cl_headers = <<>>
    /\ cl_last = NoAnswer

ClaudeNext == ClaudeBegin \/ ClaudeRequest \/ ClaudeWait


----------------------------------------------------------------------------
(* searchUSPTOPatents                                                      *)

MaxNames == 2
MaxResults == 2

AcmeInc == <<"A", "c", "m", "e", " ", "I", "n", "c">>
AcmeCo == <<"A", "c", "m", "e", " ", "C", "o">>
ShortName == <<"X", "y">>
NameSet == { AcmeInc, AcmeCo, ShortName }

NameLists == UNION { [1..k -> NameSet] : k \in 0..MaxNames }

AppA == <<"1", "5">>
AppB == <<"1", "6">>
AppNums == { AppA, AppB }

AcmeApplicant == << <<"A", "C", "M", "E", " ", "I", "N", "C">> >>
\* Z, E with an acute accent, D: a name with a letter outside ASCII
OtherApplicant == << <<"Z", "\\u00C9", "D">> >>

\* Raw rows of a search answer: the application number as the registry sent
\* it (empty: the row carries none) and the applicant and inventor names.
RawResults ==
    { [applicationNumberText |-> <<>>, applicants |-> AcmeApplicant, inventors |-> <<>>],
      [applicationNumberText |-> AppA, applicants |-> AcmeApplicant, inventors |-> <<>>],
      [applicationNumberText |-> <<" ">> \o AppA, applicants |-> OtherApplicant, inventors |-> <<>>],
      [applicationNumberText |-> AppB, applicants |-> <<>>, inventors |-> AcmeApplicant],
      [applicationNumberText |-> AppB, applicants |-> OtherApplicant, inventors |-> <<>>] }

ResultLists == UNION { [1..k -> RawResults] : k \in 0..MaxResults }

Null == [null |-> TRUE]

\* extractPatentFromResult: null without an application number, else the
\* record with the trimmed number
extractPatentFromResult(result) ==
    IF Trim(result.applicationNumberText) = <<>> THEN Null
    ELSE [applicationNumberText |-> Trim(result.applicationNumberText),
          applicants |-> result.applicants,
          inventors |-> result.inventors]

LongWords(ws) == SelectSeq(ws, LAMBDA w : Len(w) > 2)

\* (patent.applicants).join(' ').toLowerCase() + ' ' + (patent.inventors)...
Combined(patent) ==
    ToLower(Join(patent.applicants, <<" ">>)) \o <<" ">> \o ToLower(Join(patent.inventors, <<" ">>))

\* combined.includes(lower) || words.every(w => combined.includes(w))
NameMatches(combined, n) ==
    LET lower == ToLower(n)
        words == LongWords(Words(lower))
    IN Includes(combined, lower) \/ \A k \in 1..Len(words) : Includes(combined, words[k])

\* The two functions above, tabulated over the rows and names of the model.
ExtractPatent == [result \in RawResults |-> extractPatentFromResult(result)]

MatchTable ==
    [result \in RawResults |->
        [n \in NameSet |-> NameMatches(Combined(result), n)]]

\* names.some(n => ...), for the patent extracted from `result`
nameMatchesApplicant(result, names) ==
    \E k \in 1..Len(names) : MatchTable[result][names[k]]

\* A variant that never finds a number in seenAppNums.
UnseenAlways(patent, seen) == TRUE

\* !seenAppNums.has(patent.applicationNumberText)
Unseen(patent, seen) == patent.applicationNumberText \notin seen

\* searchStrategy === 'quoted-phrase' && !nameMatchesApplicant(patent, companyNames)
FilteredOut(result, strategy, names) ==
    strategy = "quoted-phrase" /\ ~nameMatchesApplicant(result, names)

\* the loop `for (const result of results)`
RECURSIVE ProcessResults(_, _, _, _, _)
ProcessResults(results, strategy, names, patents, seen) ==
    IF results = <<>> THEN [patents |-> patents, seen |-> seen]
    ELSE LET patent == ExtractPatent[Head(results)]
         IN IF patent # Null /\ Unseen(patent, seen) /\ ~FilteredOut(Head(results), strategy, names)
            THEN ProcessResults(Tail(results), strategy, names, Append(patents, patent),
                                seen \cup {patent.applicationNumberText})
            ELSE ProcessResults(Tail(results), strategy, names, patents, seen)

\* History: the first row of each application number, in query order.
RECURSIVE NoteFirst(_, _)
NoteFirst(results, first) ==
    IF results = <<>> THEN first
    ELSE LET patent == ExtractPatent[Head(results)]
         IN IF patent # Null /\ first[patent.applicationNumberText] = Null
            THEN NoteFirst(Tail(results), [first EXCEPT ![patent.applicationNumberText] = patent])
            ELSE NoteFirst(Tail(results), first)

\* History: the first row of each application number that came from the
\* applicant-filtered query or names a queried company.
RECURSIVE NoteFirstKept(_, _, _, _)
NoteFirstKept(results, strategy, names, first) ==
    IF results = <<>> THEN first
    ELSE LET patent == ExtractPatent[Head(results)]
         IN IF patent # Null /\ first[patent.applicationNumberText] = Null
               /\ (strategy = "applicant-filter" \/ nameMatchesApplicant(Head(results), names))
            THEN NoteFirstKept(Tail(results), strategy, names,
                               [first EXCEPT ![patent.applicationNumberText] = patent])
            ELSE NoteFirstKept(Tail(results), strategy, names, first)

\* History: the answer holds a row with application number a.
AnsweredWith(results, a) ==
    \E k \in 1..Len(results) :
        /\ ExtractPatent[results[k]] # Null
        /\ ExtractPatent[results[k]].applicationNumberText = a

SearchAdvance ==
    IF sr_i < Len(companyNames)
    THEN /\ sr_i' = sr_i + 1
         /\ sr_pc' = "filter"
         /\ UNCHANGED sr_result
    ELSE /\ UNCHANGED sr_i
         /\ sr_pc' = "done"
         /\ sr_result' = allPatents'

SearchTake(results, strategy) ==
    LET r == ProcessResults(results, strategy, companyNames, allPatents, seenAppNums)
    IN /\ allPatents' = r.patents
       /\ seenAppNums' = r.seen
       /\ sr_first' = NoteFirst(results, sr_first)
       /\ sr_firstKept' = NoteFirstKept(results, strategy, companyNames, sr_firstKept)
       /\ sr_variants' = [a \in AppNums |->
              IF AnsweredWith(results, a) THEN sr_variants[a] \cup {companyNames[sr_i]}
              ELSE sr_variants[a]]

\* for (const companyName of companyNames) with no name
SearchNoNames ==
    /\ SearchOnly
    /\ sr_pc = "filter"
    /\ companyNames = <<>>
    /\ sr_pc' = "done"
    /\ sr_result' = allPatents
    /\ UNCHANGED <<companyNames, sr_i, allPatents, seenAppNums, sr_first, sr_firstKept,
                   sr_variants, sr_phrase>>

\* Strategy 1: the applicant-name-filtered query for companyNames[sr_i]
SearchFilter ==
    /\ SearchOnly
    /\ sr_pc = "filter"
    /\ companyNames # <<>>
    /\ \/ \* fetch or json() rejects: caught, next name
          /\ UNCHANGED <<allPatents, seenAppNums, sr_first, sr_firstKept, sr_variants>>
          /\ SearchAdvance
       \/ \* a non-OK answer or no rows: the quoted-phrase query follows
          /\ sr_pc' = "phrase"
          /\ UNCHANGED <<sr_i, allPatents, seenAppNums, sr_result, sr_first, sr_firstKept, sr_variants>>
       \/ \E results \in ResultLists :
          /\ results # <<>>
          /\ SearchTake(results, "applicant-filter")
          /\ SearchAdvance
    /\ UNCHANGED <<companyNames, sr_phrase>>

\* Strategy 2: the quoted-phrase query for companyNames[sr_i]
SearchPhrase ==
    /\ SearchOnly
    /\ sr_pc = "phrase"
    /\ sr_phrase' = sr_phrase \cup {sr_i}
    /\ \/ \* fetch or json() rejects, or a non-OK answer: next name
          /\ UNCHANGED <<allPatents, seenAppNums, sr_first, sr_firstKept, sr_variants>>
          /\ SearchAdvance
       \/ \E results \in ResultLists :
          /\ SearchTake(results, "quoted-phrase")
          /\ SearchAdvance
    /\ UNCHANGED <<companyNames>>

NoFirst == [a \in AppNums |-> Null]

SearchInit ==
    /\ sr_pc = "filter"
    /\ companyNames \in NameLists
    /\ sr_i = 1
    /\ allPatents = <<>>
    /\ seenAppNums = {}
    /\ sr_result = Null
    /\ sr_first = NoFirst
    /\ sr_firstKept = NoFirst
    /\ sr_variants = [a \in AppNums |-> {}]
    /\ sr_phrase = {}

SearchIdle ==
    /\ sr_pc = "idle"
    /\ companyNames = <<>>
    /\ sr_i = 1
    /\ allPatents = <<>>
    /\ seenAppNums = {}
    /\ sr_result = Null
    /\ sr_first = NoFirst
    /\ sr_firstKept = NoFirst
    /\ sr_variants = [a \in AppNums |-> {}]
    /\ sr_phrase = {}

SearchNext == SearchNoNames \/ SearchFilter \/ SearchPhrase

----------------------------------------------------------------------------
(* fetchPatentXml, tryFetchXml, tryDirectXmlLookup                         *)

MaxFiles == 4

FilesTried == 3
MinXmlLength == 100

PTGR == "PTGRXML-SPLT"
APP == "APPXML-SPLT"

\* Answers to a files search or to the detail request: "error" is a request
\* or a json() that rejects, rows the number of files listed.
RowCounts == {0, 1, MaxFiles}

SearchAnswers ==
    [kind : {"error", "nonOK"}, rows : {0}]
    \cup [kind : {"ok"}, rows : RowCounts]

\* Answers to the fetch of an XML file: the body's length and whether it
\* holds a '<'.
FetchBodies ==
    { [len |-> 0, lt |-> FALSE], [len |-> 99, lt |-> TRUE], [len |-> 100, lt |-> TRUE],
      [len |-> 101, lt |-> TRUE], [len |-> 101, lt |-> FALSE] }

NoBody == [len |-> 0, lt |-> FALSE]

FetchAnswers ==
    [kind : {"error", "nonOK"}, body : {NoBody}] \cup [kind : {"ok"}, body : FetchBodies]

NoFetch == [kind |-> "none", body |-> NoBody]

DetailFields == [grantDate : BOOLEAN, filingDate : BOOLEAN, patentNumber : BOOLEAN,
                 publicationNumber : BOOLEAN]

NoDetail == [grantDate |-> FALSE, filingDate |-> FALSE, patentNumber |-> FALSE,
             publicationNumber |-> FALSE]

\* const pn = patentNumber || detail.patentNumber
\* const pubNum = publicationNumber || detail.publicationNumber
DetailLocals(detail) ==
    [grantDate |-> detail.grantDate, filingDate |-> detail.filingDate,
     pn |-> (patentNumber \/ detail.patentNumber),
     pubNum |-> (publicationNumber \/ detail.publicationNumber)]

NoLocals == [grantDate |-> FALSE, filingDate |-> FALSE, pn |-> FALSE, pubNum |-> FALSE]

\* A variant that also rejects a body of exactly the minimum length.
tryFetchXmlLongerOnly(answer) ==
    IF answer.kind # "ok" THEN Null
    ELSE IF answer.body.len = 0 \/ answer.body.len <= MinXmlLength \/ ~answer.body.lt THEN Null
    ELSE [xmlContent |-> answer.body]

\* if (!res.ok) return null; if (!xml || xml.length < 100 || !xml.includes('<')) return null
tryFetchXml(answer) ==
    IF answer.kind # "ok" THEN Null
    ELSE IF answer.body.len = 0 \/ answer.body.len < MinXmlLength \/ ~answer.body.lt THEN Null
    ELSE [xmlContent |-> answer.body]

\* A variant that reports the granted-patent product whatever was searched.
ProductOfGrant(product) == "PTGRXML"

\* product === 'PTGRXML-SPLT' ? 'PTGRXML' : 'APPXML'
ProductOf(product) == IF product = PTGR THEN "PTGRXML" ELSE "APPXML"

Found(xmlResult, product) ==
    [kind |-> "return", value |-> [xmlContent |-> xmlResult.xmlContent, product |-> product]]

ReturnNull == [kind |-> "return", value |-> Null]

\* A variant in which tryDirectXmlLookup has no catch of its own.
HandledButLookup(where) == where # "lookup"

\* The try/catch that encloses a failing request: "loop" (fetchPatentXml's
\* product loop), "lookup" (tryDirectXmlLookup), "inner" (its product loop).
Handled(where) == where \in {"loop", "lookup", "inner"}

\* A variant that searches by patent number for either product.
AltSearchDueAnyProduct(pn, product) == pn

\* if (patentNumber && product === 'PTGRXML-SPLT'), inside if (!searchRes.ok)
AltSearchDue(pn, product) == pn /\ product = PTGR

Op(op, product, answer, rows) == [op |-> op, product |-> product, answer |-> answer, rows |-> rows]

Validity(answer) == IF tryFetchXml(answer) = Null THEN "invalid" ELSE "valid"

XmlRaise ==
    /\ xml_pc' = "done"
    /\ xml_outcome' = [kind |-> "throw", value |-> Null]
    /\ UNCHANGED <<xml_product, xml_files, xml_detail>>

XmlReturn(outcome) ==
    /\ xml_pc' = "done"
    /\ xml_outcome' = outcome
    /\ UNCHANGED <<xml_product, xml_files, xml_detail>>

\* `continue` or the end of an iteration of `for (const product of products)`
XmlNextProduct ==
    /\ IF xml_product = PTGR
       THEN xml_product' = APP /\ xml_pc' = "search"
       ELSE xml_product' = PTGR /\ xml_pc' = "detail"
    /\ UNCHANGED <<xml_files, xml_detail, xml_outcome>>

\* if (pn && grantDate)
GrantUrlDue(locals) == locals.pn /\ locals.grantDate

\* if (pubNum && filingDate)
AppUrlDue(locals) == locals.pubNum /\ locals.filingDate

XmlAfterGrantUrl ==
    IF AppUrlDue(xml_detail)
    THEN /\ xml_pc' = "directApp"
         /\ UNCHANGED <<xml_product, xml_files, xml_detail, xml_outcome>>
    ELSE XmlReturn(ReturnNull)

\* the end of an iteration of tryDirectXmlLookup's product loop
XmlNextLookupProduct ==
    IF xml_product = PTGR
    THEN /\ xml_product' = APP /\ xml_pc' = "research"
         /\ UNCHANGED <<xml_files, xml_detail, xml_outcome>>
    ELSE IF GrantUrlDue(xml_detail)
    THEN /\ xml_pc' = "directGrant"
         /\ UNCHANGED <<xml_product, xml_files, xml_detail, xml_outcome>>
    ELSE XmlAfterGrantUrl

\* fetch(`.../files/${product}?applicationNumberText=${appNum}`)
XmlSearch ==
    /\ XmlOnly
    /\ xml_pc = "search"
    /\ \E ans \in SearchAnswers :
        /\ xml_trace' = Append(xml_trace, Op("search", xml_product, ans.kind, ans.rows))
        /\ CASE ans.kind = "error" ->
                  IF Handled("loop") THEN XmlNextProduct ELSE XmlRaise
             [] ans.kind = "nonOK" ->
                  IF AltSearchDue(patentNumber, xml_product)
                  THEN /\ xml_pc' = "alt"
                       /\ UNCHANGED <<xml_product, xml_files, xml_detail, xml_outcome>>
                  ELSE XmlNextProduct
             [] OTHER ->
                  IF ans.rows > 0
                  THEN /\ xml_pc' = "file"
                       /\ xml_files' = Min(ans.rows, FilesTried)
                       /\ UNCHANGED <<xml_product, xml_detail, xml_outcome>>
                  ELSE XmlNextProduct
    /\ xml_last' = NoFetch
    /\ UNCHANGED <<patentNumber, publicationNumber>>

\* fetch(`.../files/${product}?patentNumber=...`)
XmlAlt ==
    /\ XmlOnly
    /\ xml_pc = "alt"
    /\ \E ans \in SearchAnswers :
        /\ xml_trace' = Append(xml_trace, Op("patentSearch", xml_product, ans.kind, ans.rows))
        /\ CASE ans.kind = "error" ->
                  IF Handled("loop") THEN XmlNextProduct ELSE XmlRaise
             [] ans.kind = "ok" /\ ans.rows > 0 ->
                  /\ xml_pc' = "altFile"
                  /\ UNCHANGED <<xml_product, xml_files, xml_detail, xml_outcome>>
             [] OTHER -> XmlNextProduct
    /\ xml_last' = NoFetch
    /\ UNCHANGED <<patentNumber, publicationNumber>>

\* tryFetchXml of files[0] of the patent-number search
XmlAltFile ==
    /\ XmlOnly
    /\ xml_pc = "altFile"
    /\ \E ans \in FetchAnswers :
        /\ xml_last' = ans
        /\ xml_trace' = Append(xml_trace, Op("patentFile", xml_product, Validity(ans), 0))
        /\ IF tryFetchXml(ans) # Null
           THEN XmlReturn(Found(tryFetchXml(ans), ProductOf(xml_product)))
           ELSE XmlNextProduct
    /\ UNCHANGED <<patentNumber, publicationNumber>>

\* tryFetchXml of the next file of files.slice(0, 3)
XmlFile ==
    /\ XmlOnly
    /\ xml_pc = "file"
    /\ \E ans \in FetchAnswers :
        /\ xml_last' = ans
        /\ xml_trace' = Append(xml_trace, Op("file", xml_product, Validity(ans), 0))
        /\ IF tryFetchXml(ans) # Null
           THEN XmlReturn(Found(tryFetchXml(ans), ProductOf(xml_product)))
           ELSE IF xml_files > 1
           THEN /\ xml_files' = xml_files - 1
                /\ UNCHANGED <<xml_pc, xml_product, xml_detail, xml_outcome>>
           ELSE XmlNextProduct
    /\ UNCHANGED <<patentNumber, publicationNumber>>

\* tryDirectXmlLookup: fetch(`.../patent/applications/${appNum}`)
XmlDetail ==
    /\ XmlOnly
    /\ xml_pc = "detail"
    /\ \E ans \in SearchAnswers, detail \in DetailFields :
        /\ ans.rows = 0
        /\ ans.kind # "ok" => detail = NoDetail
        /\ xml_trace' = Append(xml_trace, Op("detail", "", ans.kind, 0))
        /\ CASE ans.kind = "error" ->
                  IF Handled("lookup") THEN XmlReturn(ReturnNull) ELSE XmlRaise
             [] ans.kind = "nonOK" -> XmlReturn(ReturnNull)
             [] OTHER ->
                  /\ xml_pc' = "research"
                  /\ xml_product' = PTGR
                  /\ xml_detail' = DetailLocals(detail)
                  /\ UNCHANGED <<xml_files, xml_outcome>>
    /\ xml_last' = NoFetch
    /\ UNCHANGED <<patentNumber, publicationNumber>>

\* tryDirectXmlLookup: the files search by application number, again
XmlResearch ==
    /\ XmlOnly
    /\ xml_pc = "research"
    /\ \E ans \in SearchAnswers :
        /\ xml_trace' = Append(xml_trace, Op("research", xml_product, IF ans.kind = "ok" THEN "ok" ELSE "failed", ans.rows))
        /\ CASE ans.kind = "error" ->
                  IF Handled("inner") THEN XmlNextLookupProduct ELSE XmlRaise
             [] ans.kind = "ok" /\ ans.rows > 0 ->
                  /\ xml_pc' = "refile"
                  /\ xml_files' = Min(ans.rows, FilesTried)
                  /\ UNCHANGED <<xml_product, xml_detail, xml_outcome>>
             [] OTHER -> XmlNextLookupProduct
    /\ xml_last' = NoFetch
    /\ UNCHANGED <<patentNumber, publicationNumber>>

XmlRefile ==
    /\ XmlOnly
    /\ xml_pc = "refile"
    /\ \E ans \in FetchAnswers :
        /\ xml_last' = ans
        /\ xml_trace' = Append(xml_trace, Op("refile", xml_product, Validity(ans), 0))
        /\ IF tryFetchXml(ans) # Null
           THEN XmlReturn(Found(tryFetchXml(ans), ProductOf(xml_product)))
           ELSE IF xml_files > 1
           THEN /\ xml_files' = xml_files - 1
                /\ UNCHANGED <<xml_pc, xml_product, xml_detail, xml_outcome>>
           ELSE XmlNextLookupProduct
    /\ UNCHANGED <<patentNumber, publicationNumber>>

\* the URL built from the grant date: .../PTGRXML-SPLT/${year}/ipg${dateStr}/...
XmlDirectGrant ==
    /\ XmlOnly
    /\ xml_pc = "directGrant"
    /\ \E ans \in FetchAnswers :
        /\ xml_last' = ans
        /\ xml_trace' = Append(xml_trace, Op("direct", PTGR, Validity(ans), 0))
        /\ IF tryFetchXml(ans) # Null
           THEN XmlReturn(Found(tryFetchXml(ans), "PTGRXML"))
           ELSE XmlAfterGrantUrl
    /\ UNCHANGED <<patentNumber, publicationNumber>>

\* the URL built from the filing date: .../APPXML-SPLT/${year}/ipa${dateStr}/...
XmlDirectApp ==
    /\ XmlOnly
    /\ xml_pc = "directApp"
    /\ \E ans \in FetchAnswers :
        /\ xml_last' = ans
        /\ xml_trace' = Append(xml_trace, Op("direct", APP, Validity(ans), 0))
        /\ IF tryFetchXml(ans) # Null
           THEN XmlReturn(Found(tryFetchXml(ans), "APPXML"))
           ELSE XmlReturn(ReturnNull)
    /\ UNCHANGED <<patentNumber, publicationNumber>>

XmlInit ==
    /\ xml_pc = "search"
    /\ patentNumber \in BOOLEAN
    /\ publicationNumber \in BOOLEAN
    /\ xml_product = PTGR
    /\ xml_files = 0
    /\ xml_detail = NoLocals
    /\ xml_outcome = [kind |-> "none", value |-> Null]
    /\ xml_trace = <<>>
    /\ xml_last = NoFetch

XmlIdle ==
    /\ xml_pc = "idle"
    /\ patentNumber = FALSE
    /\ publicationNumber = FALSE
    /\ xml_product = PTGR
    /\ xml_files = 0
    /\ xml_detail = NoLocals
    /\ xml_outcome = [kind |-> "none", value |-> Null]
    /\ xml_trace = <<>>
    /\ xml_last = NoFetch

XmlNext ==
    \/ XmlSearch \/ XmlAlt \/ XmlAltFile \/ XmlFile \/ XmlDetail
    \/ XmlResearch \/ XmlRefile \/ XmlDirectGrant \/ XmlDirectApp

----------------------------------------------------------------------------
(* researchAndAnalyzeCompetitor                                            *)

MaxScores == 1

PatentsCap == 15

\* A JSON number n is held as the integer 2n, so that 50.5 is 101.
JsNumber(h) == [kind |-> "number", halves |-> h]
Num(n) == JsNumber(2 * n)
HalfAbove(n) == JsNumber(2 * n + 1)
Undefined == [kind |-> "undefined", halves |-> 0]
NaN == [kind |-> "NaN", halves |-> 0]
NegInfinity == [kind |-> "-Infinity", halves |-> 0]

\* What the model lets the LLM write where a probability is asked for:
\* -5, 50, 50.5, 150, or nothing.
LlmNumbers == {Num(-5), Num(50), HalfAbove(50), Num(150)}
LlmValues == LlmNumbers \cup {Undefined}

ScoreLists ==
    UNION { [1..n -> [infringementProbability : LlmValues]] : n \in 0..MaxScores }

UndefinedList == [defined |-> FALSE, items |-> <<>>]

List(items) == [defined |-> TRUE, items |-> items]

\* The objects the analysis text can parse to.
AnalysisObjects ==
    [settlementProbability : LlmValues,
     settlementFactors : {<<"positive", "negative", "neutral">>},
     companyRisk : {"High"},
     products : {List(<<>>)}]
    \cup
    [settlementProbability : {Num(50)},
     settlementFactors : {<<"positive", "negative", "neutral">>},
     companyRisk : {"High"},
     products : {UndefinedList} \cup { List(items) : items \in ScoreLists }]

\* lines 580-585: the analysis used when the text does not parse
\* A variant that takes the worst case when the text does not parse.
WorstCaseAnalysis ==
    [settlementProbability |-> Num(100),
     settlementFactors |-> <<"negative">>,
     companyRisk |-> "High",
     products |-> List(<<>>)]

FallbackAnalysis ==
    [settlementProbability |-> Num(50),
     settlementFactors |-> <<"neutral">>,
     companyRisk |-> "Medium",
     products |-> List(<<>>)]

NoAnalysis ==
    [settlementProbability |-> Undefined, settlementFactors |-> <<>>,
     companyRisk |-> "", products |-> UndefinedList]

\* parseJsonResponse: the text holds no parseable JSON, holds the JSON
\* literal null, or holds an object.
ParseResults(objects) ==
    [kind : {"unparseable", "null"}, object : {CHOOSE o \in objects : TRUE}]
    \cup [kind : {"object"}, object : objects]

\* An answer of callClaude as the pipeline sees it: a raise or a text.
ClaudeAnswers(objects) ==
    [kind : {"throw"}, parsed : {CHOOSE r \in ParseResults(objects) : TRUE}]
    \cup [kind : {"text"}, parsed : ParseResults(objects)]

CompanyName == "Acme"

\* The URLs of the model: none, the company's site, a page of a product.
NoUrl == ""
SiteUrl == "https://acme.example"
PageUrl == "https://acme.example/p1"

ResearchProduct(name, url) == [name |-> name, url |-> url]

ResearchProducts ==
    { <<>>,
      <<ResearchProduct("P1", SiteUrl)>>,
      <<ResearchProduct("P1", PageUrl), ResearchProduct("P2", NoUrl)>>,
      <<ResearchProduct("P1", NoUrl), ResearchProduct("P1", PageUrl)>> }

ResearchObjects ==
    [officialName : {"Acme Corp"}, aliases : {<<"Acme Labs">>},
     websiteUrl : {NoUrl, SiteUrl}, products : ResearchProducts]

\* line 283: the research used when the text does not parse
FallbackResearch ==
    [officialName |-> CompanyName, aliases |-> <<>>, websiteUrl |-> NoUrl, products |-> <<>>]

\* competitorWebsite = research.websiteUrl || ''
competitorWebsite == research.websiteUrl

\* Values of the content-type header, as strings of characters:
\* text/html, application/pdf and application/pdf; charset=binary.
TextHtml == <<"t", "e", "x", "t", "/", "h", "t", "m", "l">>
ApplicationPdf == <<"a", "p", "p", "l", "i", "c", "a", "t", "i", "o", "n", "/", "p", "d", "f">>
ApplicationPdfBinary ==
    ApplicationPdf \o <<";", " ", "c", "h", "a", "r", "s", "e", "t", "=", "b", "i", "n", "a", "r", "y">>

\* What the HEAD request of verifyUrl does: an OK answer for a page or for
\* a PDF, an answer that is not OK, or no answer (the abort after 8 s, or a
\* network error).
HeadAnswers ==
    { [kind |-> "ok", contentType |-> TextHtml],
      [kind |-> "ok", contentType |-> ApplicationPdf],
      [kind |-> "ok", contentType |-> ApplicationPdfBinary],
      [kind |-> "nonOK", contentType |-> TextHtml],
      [kind |-> "fails", contentType |-> <<>>] }

\* The product has no URL: no request is made.
NoHead == [kind |-> "none", contentType |-> <<>>]

\* A variant for which any answer shows that the URL is live.
verifyUrlAnyAnswer(head) ==
    IF head.kind \in {"fails", "none"} THEN [live |-> FALSE, contentType |-> <<>>]
    ELSE [live |-> TRUE, contentType |-> head.contentType]

\* lines 100-115: { live: res.ok, contentType }, or live false in the catch
verifyUrl(head) ==
    IF head.kind \in {"fails", "none"} THEN [live |-> FALSE, contentType |-> <<>>]
    ELSE [live |-> head.kind = "ok", contentType |-> head.contentType]

\* check.contentType.includes('pdf')
IsPdf(contentType) == Includes(contentType, <<"p", "d", "f">>)

\* source_url: url || competitorWebsite || null
SourceUrl(url, website) ==
    IF url # NoUrl THEN url ELSE IF website # NoUrl THEN website ELSE "null"

\* A variant that calls a live product live.
ProductStatusLive(isLive) == IF isLive THEN "live" ELSE "ai_researched"

\* status: isLive ? 'verified' : 'ai_researched'
ProductStatus(isLive) == IF isLive THEN "verified" ELSE "ai_researched"

\* status: xmlUrl ? 'xml_available' : 'metadata_only'
PatentStatus(hasXmlUrl) == IF hasXmlUrl THEN "xml_available" ELSE "metadata_only"

\* A record of the list answered by searchUSPTOPatents: its application
\* number and its title, "" for a record without one.
Patent(app, title) == [applicationNumberText |-> app, patentTitle |-> title]

\* The lists answered: a patent titled like a product of the research, a
\* patent with a title of its own and one without a title.
PatentLists == { <<>>, <<Patent("A", "P1")>>, <<Patent("A", "Widget"), Patent("B", "")>> }

NoId == 0
ExistingId == 1
NewId == 2

\* A row left by an earlier run.
OldRow == [competitor_id |-> ExistingId, status |-> "complete",
           results |-> [FallbackAnalysis EXCEPT !.settlementProbability = Num(0)],
           infringement_score |-> Num(0)]

\* A variant that inserts the row and keeps the rows there are.
UpsertKeepingOld(rows, row) == rows \cup {row}

\* .upsert(row, { onConflict: 'competitor_id' })
Upsert(rows, row) == { r \in rows : r.competitor_id # row.competitor_id } \cup {row}

\* lines 346-356: the row of a product
ProductDoc(id, name, sourceUrl, live) ==
    [competitor_id |-> id, document_name |-> name, document_type |-> "product_service",
     source_url |-> sourceUrl, status |-> ProductStatus(live), application_number |-> ""]

\* document_name: pat.patentTitle || `Patent ${pat.applicationNumberText}`
PatentName(pat) ==
    IF pat.patentTitle # "" THEN pat.patentTitle ELSE "Patent " \o pat.applicationNumberText

\* lines 477-488: the row of a patent; source_url is written by the host of
\* the URL built for the patent
PatentDoc(id, pat, xmlUrl) ==
    [competitor_id |-> id, document_name |-> PatentName(pat), document_type |-> "patent",
     source_url |-> "https://patents.google.com", status |-> PatentStatus(xmlUrl),
     application_number |-> pat.applicationNumberText]

\* analysis.products?.map(p => p.infringementProbability) || [0]
productScores(a) ==
    IF a.products.defined
    THEN [i \in 1..Len(a.products.items) |-> a.products.items[i].infringementProbability]
    ELSE <<Num(0)>>

AllNumbers(scores) == \A i \in 1..Len(scores) : scores[i].kind = "number"

MaxHalves(scores) ==
    CHOOSE m \in {scores[i].halves : i \in 1..Len(scores)} :
        \A i \in 1..Len(scores) : scores[i].halves <= m

\* Math.max(...productScores)
maxScore(scores) ==
    IF Len(scores) = 0 THEN NegInfinity
    ELSE IF ~AllNumbers(scores) THEN NaN
    ELSE JsNumber(MaxHalves(scores))

RECURSIVE SumHalves(_)
SumHalves(scores) ==
    IF Len(scores) = 0 THEN 0 ELSE Head(scores).halves + SumHalves(Tail(scores))

\* Math.round(sum / length): the nearest integer, halves rounded up
avgScore(scores) ==
    IF Len(scores) = 0 THEN Num(0)
    ELSE IF ~AllNumbers(scores) THEN NaN
    ELSE Num((SumHalves(scores) + Len(scores)) \div (2 * Len(scores)))

\* lines 613-626: the returned ResearchResult
Summary(a) ==
    [competitorId |-> competitorId, aliases |-> research.aliases,
     productsAdded |-> productsAdded, patentsFound |-> patentsFound,
     analysis |-> [settlementProbability |-> a.settlementProbability,
                   companyRisk |-> a.companyRisk,
                   overallInfringement |-> avgScore(productScores(a))]]

NoSummary ==
    [competitorId |-> NoId, aliases |-> <<>>, productsAdded |-> 0, patentsFound |-> 0,
     analysis |-> [settlementProbability |-> Undefined, companyRisk |-> "",
                   overallInfringement |-> Undefined]]

PipeRaise ==
    /\ pl_pc' = "done"
    /\ pl_outcome' = [kind |-> "throw", value |-> NoSummary]

\* A variant of the query that looks at the newest document only.
ExistingNewest(docs, id, field, value) ==
    /\ Len(docs) > 0
    /\ docs[Len(docs)].competitor_id = id
    /\ docs[Len(docs)][field] = value

\* .select('id').eq('competitor_id', id).eq(field, value).limit(1): is the
\* answer a non-empty list?
ExistingIn(docs, id, field, value) ==
    \E k \in 1..Len(docs) :
        /\ docs[k].competitor_id = id
        /\ docs[k][field] = value

\* The query on the table competitor_documents as the run finds it.
Existing(id, field, value) == ExistingIn(competitor_documents, id, field, value)

\* The end of an iteration of the products loop.
PipeNextProduct ==
    IF pl_i < Len(research.products)
    THEN pl_i' = pl_i + 1 /\ pl_pc' = "productCheck"
    ELSE pl_i' = 1 /\ pl_pc' = "patentSearch"

\* A variant that takes up the competitor again after the last patent.
PipeNextPatentAgain ==
    IF pl_i < Min(Len(pl_patents), PatentsCap)
    THEN pl_i' = pl_i + 1 /\ pl_pc' = "patentCheck"
    ELSE pl_i' = 1 /\ pl_pc' = "competitor"

\* The end of an iteration of the patents loop.
PipeNextPatent ==
    IF pl_i < Min(Len(pl_patents), PatentsCap)
    THEN pl_i' = pl_i + 1 /\ pl_pc' = "patentCheck"
    ELSE pl_i' = 1 /\ pl_pc' = "analyze"

\* const userId = await resolveUserId(opts.userId)
PipeBegin ==
    /\ PipelineOnly
    /\ UNCHANGED <<researchText, analysisText, analysisError, pl_before, pl_checks>>
    /\ pl_pc = "begin"
    /\ \E found \in BOOLEAN :
        IF found
        THEN pl_pc' = "research" /\ pl_outcome' = pl_outcome
        ELSE PipeRaise
    /\ UNCHANGED <<existingCompetitorId, competitorId, competitorName, research, pl_i,
                   productsAdded, patentsFound, pl_patents, analysis, competitors,
                   competitor_documents, analyses>>

\* Step 1: the research call and the parse of its text
PipeResearch ==
    /\ PipelineOnly
    /\ UNCHANGED <<analysisText, analysisError, pl_before, pl_checks>>
    /\ pl_pc = "research"
    /\ \E ans \in ClaudeAnswers(ResearchObjects) :
        /\ researchText' = IF ans.kind = "throw" THEN "throw" ELSE ans.parsed.kind
        /\ CASE ans.kind = "throw" ->
               PipeRaise /\ UNCHANGED <<research, competitorName>>
          [] ans.parsed.kind = "null" ->
               PipeRaise /\ UNCHANGED <<research, competitorName>>
          [] ans.parsed.kind = "unparseable" ->
               /\ research' = FallbackResearch
               /\ competitorName' = CompanyName
               /\ pl_pc' = "competitor"
               /\ pl_outcome' = pl_outcome
          [] OTHER ->
               /\ research' = ans.parsed.object
               /\ competitorName' = ans.parsed.object.officialName
               /\ pl_pc' = "competitor"
               /\ pl_outcome' = pl_outcome
    /\ UNCHANGED <<existingCompetitorId, competitorId, pl_i, productsAdded, patentsFound,
                   pl_patents, analysis, competitors, competitor_documents, analyses>>

\* Step 2: insert the competitor, or update the existing one
PipeCompetitor ==
    /\ PipelineOnly
    /\ UNCHANGED <<researchText, analysisText, analysisError, pl_before, pl_checks>>
    /\ pl_pc = "competitor"
    /\ \E error \in BOOLEAN :
        IF competitorId = NoId
        THEN IF error
             THEN PipeRaise /\ UNCHANGED <<competitorId, competitors, pl_i>>
             ELSE /\ competitorId' = NewId
                  /\ competitors' = competitors \cup {NewId}
                  /\ pl_i' = 1
                  /\ pl_pc' = IF Len(research.products) > 0 THEN "productCheck" ELSE "patentSearch"
                  /\ pl_outcome' = pl_outcome
        ELSE /\ pl_i' = 1
             /\ pl_pc' = IF Len(research.products) > 0 THEN "productCheck" ELSE "patentSearch"
             /\ UNCHANGED <<competitorId, competitors, pl_outcome>>
    /\ UNCHANGED <<existingCompetitorId, competitorName, research, productsAdded,
                   patentsFound, pl_patents, analysis, competitor_documents, analyses>>

\* Step 3: is there a document of this competitor with the product's name?
PipeProductCheck ==
    /\ PipelineOnly
    /\ UNCHANGED <<researchText, analysisText, analysisError, pl_before, pl_checks>>
    /\ pl_pc = "productCheck"
    /\ \E error \in BOOLEAN :
        IF ~error /\ Existing(competitorId, "document_name", research.products[pl_i].name)
        THEN PipeNextProduct
        ELSE pl_pc' = "productInsert" /\ pl_i' = pl_i
    /\ UNCHANGED <<existingCompetitorId, competitorId, competitorName, research,
                   productsAdded, patentsFound, pl_patents, analysis, competitors,
                   competitor_documents, analyses, pl_outcome>>

\* Step 3: verify the product's URL and insert its document
PipeProductInsert ==
    /\ PipelineOnly
    /\ UNCHANGED <<researchText, analysisText, analysisError, pl_before>>
    /\ pl_pc = "productInsert"
    /\ \E head \in HeadAnswers \cup {NoHead}, error \in BOOLEAN :
        LET p == research.products[pl_i]
            check == verifyUrl(head)
            isLive == p.url # NoUrl /\ check.live
            fetched == isLive /\ ~IsPdf(check.contentType)
            url == IF isLive THEN p.url ELSE NoUrl
        IN  /\ (head = NoHead) <=> (p.url = NoUrl)
            /\ IF error
               THEN UNCHANGED <<competitor_documents, productsAdded, pl_checks>>
               ELSE /\ competitor_documents' =
                          Append(competitor_documents,
                                 ProductDoc(competitorId, p.name,
                                            SourceUrl(url, competitorWebsite), isLive))
                    /\ productsAdded' = productsAdded + 1
                    /\ pl_checks' = Append(pl_checks,
                                           [url |-> p.url, head |-> head, fetched |-> fetched])
    /\ PipeNextProduct
    /\ UNCHANGED <<existingCompetitorId, competitorId, competitorName, research,
                   patentsFound, pl_patents, analysis, competitors, analyses, pl_outcome>>

\* Step 4: searchUSPTOPatents([competitorName, ...aliases])
PipePatentSearch ==
    /\ PipelineOnly
    /\ UNCHANGED <<researchText, analysisText, analysisError, pl_before, pl_checks>>
    /\ pl_pc = "patentSearch"
    /\ \E patents \in PatentLists :
        /\ pl_patents' = patents
        /\ pl_pc' = IF Min(Len(patents), PatentsCap) > 0 THEN "patentCheck" ELSE "analyze"
    /\ pl_i' = 1
    /\ UNCHANGED <<existingCompetitorId, competitorId, competitorName, research,
                   productsAdded, patentsFound, analysis, competitors,
                   competitor_documents, analyses, pl_outcome>>

\* Step 4: is there a document of this competitor with the application number?
PipePatentCheck ==
    /\ PipelineOnly
    /\ UNCHANGED <<researchText, analysisText, analysisError, pl_before, pl_checks>>
    /\ pl_pc = "patentCheck"
    /\ \E error \in BOOLEAN :
        IF ~error /\ Existing(competitorId, "application_number", pl_patents[pl_i].applicationNumberText)
        THEN PipeNextPatent
        ELSE pl_pc' = "patentInsert" /\ pl_i' = pl_i
    /\ UNCHANGED <<existingCompetitorId, competitorId, competitorName, research,
                   productsAdded, patentsFound, pl_patents, analysis, competitors,
                   competitor_documents, analyses, pl_outcome>>

\* Step 4: look for the patent's XML and insert its document
PipePatentInsert ==
    /\ PipelineOnly
    /\ UNCHANGED <<researchText, analysisText, analysisError, pl_before, pl_checks>>
    /\ pl_pc = "patentInsert"
    /\ \E xmlUrl \in BOOLEAN, error \in BOOLEAN :
        IF error
        THEN UNCHANGED <<competitor_documents, patentsFound>>
        ELSE /\ competitor_documents' =
                   Append(competitor_documents, PatentDoc(competitorId, pl_patents[pl_i], xmlUrl))
             /\ patentsFound' = patentsFound + 1
    /\ PipeNextPatent
    /\ UNCHANGED <<existingCompetitorId, competitorId, competitorName, research,
                   productsAdded, pl_patents, analysis, competitors, analyses, pl_outcome>>

\* Steps 5 and 6: read the documents, wait, the analysis call and the parse
\* of its text; a text that parses to null makes step 7 raise.
PipeAnalyze ==
    /\ PipelineOnly
    /\ UNCHANGED <<researchText, analysisError, pl_before, pl_checks>>
    /\ pl_pc = "analyze"
    /\ \E ans \in ClaudeAnswers(AnalysisObjects) :
        /\ analysisText' = IF ans.kind = "throw" THEN "throw" ELSE ans.parsed.kind
        /\ CASE ans.kind = "throw" -> PipeRaise /\ analysis' = analysis
          [] ans.parsed.kind = "null" -> PipeRaise /\ analysis' = analysis
          [] ans.parsed.kind = "unparseable" ->
               /\ analysis' = FallbackAnalysis
               /\ pl_pc' = "persist"
               /\ pl_outcome' = pl_outcome
          [] OTHER ->
               /\ analysis' = ans.parsed.object
               /\ pl_pc' = "persist"
               /\ pl_outcome' = pl_outcome
    /\ UNCHANGED <<existingCompetitorId, competitorId, competitorName, research, pl_i,
                   productsAdded, patentsFound, pl_patents, competitors,
                   competitor_documents, analyses>>

\* Step 7: upsert the analysis on competitor_id and return
PipePersist ==
    /\ PipelineOnly
    /\ pl_pc = "persist"
    /\ analysisError' \in BOOLEAN
    /\ analyses' =
            IF analysisError' THEN analyses
            ELSE Upsert(analyses,
                        [competitor_id |-> competitorId, status |-> "complete",
                         results |-> analysis,
                         infringement_score |-> maxScore(productScores(analysis))])
    /\ UNCHANGED <<researchText, analysisText, pl_before, pl_checks>>
    /\ pl_pc' = "done"
    /\ pl_outcome' = [kind |-> "return", value |-> Summary(analysis)]
    /\ UNCHANGED <<existingCompetitorId, competitorId, competitorName, research, pl_i,
                   productsAdded, patentsFound, pl_patents, analysis, competitors,
                   competitor_documents>>

\* A run starts on a store that holds one competitor, with or without
\* documents and an analysis of an earlier run.
PipeInit ==
    /\ pl_pc = "begin"
    /\ existingCompetitorId \in {NoId, ExistingId}
    /\ competitorId = existingCompetitorId
    /\ competitorName = CompanyName
    /\ research = FallbackResearch
    /\ pl_i = 1
    /\ productsAdded = 0
    /\ patentsFound = 0
    /\ pl_patents = <<>>
    /\ analysis = NoAnalysis
    /\ competitors = {ExistingId}
    /\ competitor_documents \in
          { <<>>, <<ProductDoc(ExistingId, "P1", SiteUrl, TRUE), PatentDoc(ExistingId, Patent("A", "Widget"), TRUE)>> }
    /\ analyses \in { {}, {OldRow} }
    /\ pl_outcome = [kind |-> "none", value |-> NoSummary]
    /\ researchText = "none"
    /\ analysisText = "none"
    /\ analysisError = FALSE
    /\ pl_before = analyses
    /\ pl_checks = <<>>

PipeIdle ==
    /\ pl_pc = "idle"
    /\ existingCompetitorId = NoId
    /\ competitorId = NoId
    /\ competitorName = CompanyName
    /\ research = FallbackResearch
    /\ pl_i = 1
    /\ productsAdded = 0
    /\ patentsFound = 0
    /\ pl_patents = <<>>
    /\ analysis = NoAnalysis
    /\ competitors = {}
    /\ competitor_documents = <<>>
    /\ analyses = {}
    /\ pl_outcome = [kind |-> "none", value |-> NoSummary]
    /\ researchText = "none"
    /\ analysisText = "none"
    /\ analysisError = FALSE
    /\ pl_before = {}
    /\ pl_checks = <<>>

PipeNext ==
    \/ PipeBegin \/ PipeResearch \/ PipeCompetitor \/ PipeProductCheck
    \/ PipeProductInsert \/ PipePatentSearch \/ PipePatentCheck \/ PipePatentInsert
    \/ PipeAnalyze \/ PipePersist

----------------------------------------------------------------------------
(* parseJsonResponse                                                       *)

MaxText == 5

\* A text is a sequence of tokens: the two fences, braces, a member "a":1
\* ("m"), a key with its colon ("k"), the number 1, a word of prose ("x")
\* and white space.
\* <fence> stands for the three backticks.
FenceJson == "<fence>json"
Fence == "<fence>"
TextTokens == {FenceJson, Fence, "{", "}", "m", "k", "1", "x", " "}

JsonTexts == UNION { [1..n -> TextTokens] : n \in 0..MaxText }

\* Every fence starts with the three backticks that close a block.
IsFence(t) == t \in {FenceJson, Fence}

Positions(text, P(_)) == { i \in 1..Len(text) : P(text[i]) }

Least(S) == CHOOSE i \in S : \A j \in S : i <= j
Greatest(S) == CHOOSE i \in S : \A j \in S : j <= i

IsOpen(t) == t = "{"
IsClose(t) == t = "}"
IsFenceJson(t) == t = FenceJson

\* text.match(/```json\s*([\s\S]*?)```/): the first ```json that has three
\* backticks somewhere after it; group 1 runs up to the first of them.
FenceMatches(text) ==
    \E i \in Positions(text, IsFenceJson) : \E j \in Positions(text, IsFence) : i < j

FenceGroup(text) ==
    LET i == Least(Positions(text, IsFenceJson))
        j == Least({ k \in Positions(text, IsFence) : k > i })
    IN DropWs(SubSeq(text, i + 1, j - 1))

\* text.match(/(\{[\s\S]*\})/): from the first { to the last }
BraceMatches(text) ==
    \E a \in Positions(text, IsOpen) : \E b \in Positions(text, IsClose) : a < b

BraceGroup(text) ==
    SubSeq(text, Least(Positions(text, IsOpen)), Greatest(Positions(text, IsClose)))

\* jsonMatch ? jsonMatch[1].trim() : text.trim()
jsonStr(text) ==
    IF FenceMatches(text) THEN Trim(FenceGroup(text))
    ELSE IF BraceMatches(text) THEN Trim(BraceGroup(text))
    ELSE Trim(text)

\* The white space of the JSON grammar: space, tab, line feed, carriage
\* return.
IsJsonWs(c) == c \in {" ", "\t", "\n", "\r"}

\* White space between JSON tokens carries no meaning.
RECURSIVE Significant(_)
Significant(s) ==
    IF s = <<>> THEN <<>>
    ELSE IF IsJsonWs(Head(s)) THEN Significant(Tail(s))
    ELSE <<Head(s)>> \o Significant(Tail(s))

RECURSIVE StripJsonWs(_)
StripJsonWs(s) ==
    IF s = <<>> THEN <<>>
    ELSE IF IsJsonWs(Head(s)) THEN StripJsonWs(Tail(s))
    ELSE IF IsJsonWs(s[Len(s)]) THEN StripJsonWs(SubSeq(s, 1, Len(s) - 1))
    ELSE s

\* Digits side by side are one number: 1, 11, 111, ...
IsDigits(s) == \A i \in 1..Len(s) : s[i] = "1"

\* The JSON grammar over the tokens: a value is a number or an object; an
\* object is empty, holds the member m, whose number the digits that follow
\* it extend, or holds the key k and a value. White space may stand around
\* a value and inside the braces, not inside a number.
RECURSIVE IsJsonValue(_)
IsJsonValue(s) ==
    LET t == StripJsonWs(s)
    IN  \/ t # <<>> /\ IsDigits(t)
        \/ /\ Len(t) >= 2
           /\ t[1] = "{"
           /\ t[Len(t)] = "}"
           /\ LET inner == StripJsonWs(SubSeq(t, 2, Len(t) - 1))
              IN \/ inner = <<>>
                 \/ inner[1] = "m" /\ IsDigits(Tail(inner))
                 \/ Len(inner) >= 2 /\ inner[1] = "k" /\ IsJsonValue(Tail(inner))

SyntaxError == [kind |-> "throw", value |-> <<>>]

\* JSON.parse: the value, written without white space, or a SyntaxError
JsonParse(s) ==
    IF IsJsonValue(s)
    THEN [kind |-> "return", value |-> Significant(s)]
    ELSE SyntaxError

parseJsonResponse(text) == JsonParse(jsonStr(text))

ParseJson ==
    /\ ParseOnly
    /\ pj_pc = "call"
    /\ pj_pc' = "done"
    /\ pj_outcome' = parseJsonResponse(pj_text)
    /\ pj_text' = pj_text

ParseInit ==
    /\ pj_pc = "call"
    /\ pj_text \in JsonTexts
    /\ pj_outcome = [kind |-> "none", value |-> <<>>]

ParseIdle ==
    /\ pj_pc = "idle"
    /\ pj_text = <<>>
    /\ pj_outcome = [kind |-> "none", value |-> <<>>]

ParseNext == ParseJson

----------------------------------------------------------------------------
(* extractClaimsFromXml                                                    *)

MaxDoc == 5

MinClaimLength == 10

\* A document is a sequence of tokens: tags, two words and white space.
ClaimsOpen == "<claims>"
ClaimsClose == "</claims>"
ClaimOpen == "<claim>"
ClaimId == "<claim id=CLM-2>"
ClaimClose == "</claim>"
ClaimRef == "<claim-ref>"
Word4 == "abcd"
Word11 == "per claim 1"
XmlTokens == {ClaimsOpen, ClaimsClose, ClaimOpen, ClaimId, ClaimClose, ClaimRef,
              Word4, Word11, " "}

XmlDocs == UNION { [1..n -> XmlTokens] : n \in 0..MaxDoc }

IsTag(t) == t \in {ClaimsOpen, ClaimsClose, ClaimOpen, ClaimId, ClaimClose, ClaimRef}

\* /<claim[^>]*>/i matches every tag that starts with "<claim"
IsClaimStart(t) == t \in {ClaimsOpen, ClaimOpen, ClaimId, ClaimRef}

\* parseInt(match[1]) of an id-carrying tag
IdOf(t) == IF t = ClaimId THEN 2 ELSE 0

\* The characters of a token once tags are replaced: .replace(/<[^>]+>/g, ' ')
TokenChars(t) ==
    CASE t = Word4 -> <<"a", "b", "c", "d">>
      [] t = Word11 -> <<"p", "e", "r", " ", "c", "l", "a", "i", "m", " ", "1">>
      [] OTHER -> <<" ">>

RECURSIVE ReplaceTags(_)
ReplaceTags(tokens) ==
    IF tokens = <<>> THEN <<>>
    ELSE TokenChars(Head(tokens)) \o ReplaceTags(Tail(tokens))

\* .replace(/<[^>]+>/g, ' ').replace(/\s+/g, ' ').trim()
CleanText(tokens) == Trim(CollapseWs(ReplaceTags(tokens)))

\* /claim \d+/i.test(text)
RefersToClaim(text) ==
    \E i \in 1..(Len(text) - 6) :
        /\ [k \in 1..6 |-> FoldCase(text[i + k - 1])] = <<"c", "l", "a", "i", "m", " ">>
        /\ IsDigit(text[i + 6], 10)

ClaimType(dependent) == IF dependent THEN "dependent" ELSE "independent"

\* claimPattern.exec(xml), from position `from` on: the first id-carrying
\* <claim> tag that has a </claim> after it, and the first such </claim>.
IdClaimAt(xml, from) ==
    { i \in from..Len(xml) :
        xml[i] = ClaimId /\ \E j \in (i + 1)..Len(xml) : xml[j] = ClaimClose }

RECURSIVE IdClaims(_, _, _)
IdClaims(xml, from, claimNum) ==
    IF IdClaimAt(xml, from) = {} THEN <<>>
    ELSE LET i == Least(IdClaimAt(xml, from))
             j == Least({ k \in (i + 1)..Len(xml) : xml[k] = ClaimClose })
             body == SubSeq(xml, i + 1, j - 1)
             claimText == CleanText(body)
             isDependent == RefersToClaim(claimText)
                            \/ \E k \in 1..Len(body) : body[k] = ClaimRef
         IN <<[number |-> IF IdOf(xml[i]) # 0 THEN IdOf(xml[i]) ELSE claimNum + 1,
               type |-> ClaimType(isDependent), text |-> claimText]>>
            \o IdClaims(xml, j + 1, claimNum + 1)

\* xml.match(/<claims[^>]*>([\s\S]*?)<\/claims>/i)
HasClaimsBlock(xml) ==
    \E i, j \in 1..Len(xml) : i < j /\ xml[i] = ClaimsOpen /\ xml[j] = ClaimsClose

claimsBlock(xml) ==
    LET opens == { i \in 1..Len(xml) :
                     xml[i] = ClaimsOpen /\ \E j \in (i + 1)..Len(xml) : xml[j] = ClaimsClose }
        i == Least(opens)
        j == Least({ k \in (i + 1)..Len(xml) : xml[k] = ClaimsClose })
    IN SubSeq(xml, i + 1, j - 1)

\* block.split(/<claim[^>]*>/i)
RECURSIVE SplitClaims(_, _)
SplitClaims(tokens, piece) ==
    IF tokens = <<>> THEN <<piece>>
    ELSE IF IsClaimStart(Head(tokens)) THEN <<piece>> \o SplitClaims(Tail(tokens), <<>>)
    ELSE SplitClaims(Tail(tokens), Append(piece, Head(tokens)))

\* s.trim() is empty: the piece holds white space only
IsBlank(piece) == \A k \in 1..Len(piece) : piece[k] = " "

RECURSIVE NonBlank(_)
NonBlank(pieces) ==
    IF pieces = <<>> THEN <<>>
    ELSE IF IsBlank(Head(pieces)) THEN NonBlank(Tail(pieces))
    ELSE <<Head(pieces)>> \o NonBlank(Tail(pieces))

singleClaims(xml) == NonBlank(SplitClaims(claimsBlock(xml), <<>>))

\* A variant that keeps every piece.
LongEnoughAlways(text) == TRUE

\* if (text.length > 10)
LongEnough(text) == Len(text) > MinClaimLength

RECURSIVE FallbackClaims(_, _)
FallbackClaims(pieces, i) ==
    IF i > Len(pieces) THEN <<>>
    ELSE LET text == CleanText(pieces[i])
         IN (IF LongEnough(text)
             THEN <<[number |-> i, type |-> ClaimType(RefersToClaim(text)), text |-> text]>>
             ELSE <<>>)
            \o FallbackClaims(pieces, i + 1)

extractClaimsFromXml(xml) ==
    IF IdClaims(xml, 1, 0) # <<>> THEN IdClaims(xml, 1, 0)
    ELSE IF HasClaimsBlock(xml) THEN FallbackClaims(singleClaims(xml), 1)
    ELSE <<>>

ExtractClaims ==
    /\ ClaimsOnly
    /\ cx_pc = "call"
    /\ cx_pc' = "done"
    /\ cx_claims' = extractClaimsFromXml(cx_xml)
    /\ cx_xml' = cx_xml

ClaimsInit ==
    /\ cx_pc = "call"
    /\ cx_xml \in XmlDocs
    /\ cx_claims = <<>>

ClaimsIdle ==
    /\ cx_pc = "idle"
    /\ cx_xml = <<>>
    /\ cx_claims = <<>>

ClaimsNext == ExtractClaims

----------------------------------------------------------------------------
(* The competitor_documents table and the statements that write it.        *)
(* Handlers run concurrently and give up control at each awaited           *)
(* statement, so one action is one statement on the store.                 *)

MaxDocs == 3

\* The ids the store gives to competitor rows, in this order.
CompetitorIds == {1, 2}

\* The row left behind by a delete: its id is never given out again.
Deleted == [competitor_id |-> 0, document_type |-> "none", status |-> "deleted"]

DocRow(c, type, status) == [competitor_id |-> c, document_type |-> type, status |-> status]

\* A variant that overwrites the competitor's first row, if it has one.
InsertDocReplacing(docs, row) ==
    LET own == { id \in 1..Len(docs) : docs[id].competitor_id = row.competitor_id }
    IN IF own = {} THEN Append(docs, row)
       ELSE [docs EXCEPT ![CHOOSE id \in own : \A other \in own : id <= other] = row]

\* supabase.from('competitor_documents').insert(row): the row gets a new id
InsertDoc(docs, row) == Append(docs, row)

\* a foreign key of competitor_documents that cascades: rows go with their
\* competitor
CascadeDelete(docs, c) ==
    [id \in 1..Len(docs) |-> IF docs[id].competitor_id = c THEN Deleted ELSE docs[id]]

\* the insert of a competitors row by a route or by the pipeline
\* The competitor ids for which the store takes the insert of a document:
\* with the foreign key the competitors there are; without it any id, that
\* of a competitor deleted while the request ran included.
Accounted == IF st_cascade THEN st_competitors ELSE 1..st_created

StoreCreateCompetitor ==
    /\ StoreOnly
    /\ st_created < Cardinality(CompetitorIds)
    /\ st_created' = st_created + 1
    /\ st_competitors' = st_competitors \cup {st_created'}
    /\ UNCHANGED <<st_docs, st_viewed, st_cascade>>

\* onboarding, step 2: a document URL given by the user
StoreOnboardingDoc ==
    /\ StoreOnly
    /\ Len(st_docs) < MaxDocs
    /\ \E c \in Accounted :
         st_docs' = InsertDoc(st_docs, DocRow(c, "pdf", "pending_extraction"))
    /\ UNCHANGED <<st_competitors, st_created, st_viewed, st_cascade>>

\* batch research, step 2: a document URL that was or was not fetched
StoreBatchDoc ==
    /\ StoreOnly
    /\ Len(st_docs) < MaxDocs
    /\ \E c \in Accounted, fetched \in BOOLEAN :
         st_docs' = InsertDoc(st_docs,
                        DocRow(c, "pdf", IF fetched THEN "extracted" ELSE "fetch_failed"))
    /\ UNCHANGED <<st_competitors, st_created, st_viewed, st_cascade>>

\* the pipeline, step 3: the insert of a product; the query that looked for
\* a document of its name is an earlier statement, and the insert is made
\* whatever the store holds by now
StoreProductDoc ==
    /\ StoreOnly
    /\ Len(st_docs) < MaxDocs
    /\ \E c \in Accounted, isLive \in BOOLEAN :
         st_docs' = InsertDoc(st_docs, DocRow(c, "product_service", ProductStatus(isLive)))
    /\ UNCHANGED <<st_competitors, st_created, st_viewed, st_cascade>>

\* the pipeline, step 4: the insert of a patent, made in the same way
StorePatentDoc ==
    /\ StoreOnly
    /\ Len(st_docs) < MaxDocs
    /\ \E c \in Accounted, hasXmlUrl \in BOOLEAN :
         st_docs' = InsertDoc(st_docs, DocRow(c, "patent", PatentStatus(hasXmlUrl)))
    /\ UNCHANGED <<st_competitors, st_created, st_viewed, st_cascade>>

\* the delete route, type competitor_document
StoreDeleteDoc ==
    /\ StoreOnly
    /\ \E id \in 1..Len(st_docs) :
         /\ st_docs[id] # Deleted
         /\ st_docs' = [st_docs EXCEPT ![id] = Deleted]
    /\ UNCHANGED <<st_competitors, st_created, st_viewed, st_cascade>>

\* the delete route, type competitor: the route deletes the row of the
\* table competitors and nothing else; what becomes of the competitor's
\* documents is left to the store: they go with the competitor where the
\* foreign key cascades, and stay where there is none
StoreDeleteCompetitor ==
    /\ StoreOnly
    /\ \E c \in st_competitors :
         /\ st_competitors' = st_competitors \ {c}
         /\ st_docs' = IF st_cascade THEN CascadeDelete(st_docs, c) ELSE st_docs
    /\ UNCHANGED <<st_created, st_viewed, st_cascade>>

\* the XML viewer asked for a competitor document: the row is only read
StoreViewDoc ==
    /\ StoreOnly
    /\ \E id \in 1..Len(st_docs) :
         /\ st_docs[id] # Deleted
         /\ st_viewed' = TRUE
    /\ UNCHANGED <<st_competitors, st_created, st_docs, st_cascade>>

StoreInit ==
    /\ st_competitors = {}
    /\ st_created = 0
    /\ st_docs = <<>>
    /\ st_viewed = FALSE
    /\ st_cascade \in BOOLEAN

StoreIdle ==
    /\ st_competitors = {}
    /\ st_created = 0
    /\ st_docs = <<>>
    /\ st_viewed = FALSE
    /\ st_cascade = TRUE

StoreNext ==
    \/ StoreCreateCompetitor
    \/ StoreOnboardingDoc
    \/ StoreBatchDoc
    \/ StoreProductDoc
    \/ StorePatentDoc
    \/ StoreDeleteDoc
    \/ StoreDeleteCompetitor
    \/ StoreViewDoc

----------------------------------------------------------------------------
(* discoverProductUrls                                                     *)

MaxMenu == 11
MaxExtra == 1

UrlLimit == 10

\* An anchor of the page: the form of its href, the file the href names,
\* whether the file name holds one of the documentation words, and the
\* text between the tags.
\*   "page"     /products/<file>            "plain"    /about/<file>
\*   "pdf"      /files/<file>.pdf           "pdfQuery" /docs/<file>.pdf?v=1
\*   "absolute" http://<site>/products/<file>
\*   "external" //other.example/products/<file>
\*   "invalid"  http://[<file>.pdf
Anchor(form, file, word, text) == [form |-> form, file |-> file, word |-> word, text |-> text]

\* The menu of a site: n product pages.
Menu(n) == [i \in 1..n |-> Anchor("page", i, FALSE, "Products")]

ExtraAnchors ==
    { Anchor("page", 1, FALSE, ""),
      Anchor("plain", 1, FALSE, "About"),
      Anchor("plain", 2, FALSE, "Our products"),
      Anchor("pdf", 1, TRUE, "Spec"),
      Anchor("pdf", 2, FALSE, "Logo"),
      Anchor("pdfQuery", 3, TRUE, "Guide"),
      Anchor("absolute", 1, FALSE, "Products"),
      Anchor("external", 1, FALSE, "Products"),
      Anchor("invalid", 1, TRUE, "Spec") }

Extras == UNION { [1..k -> ExtraAnchors] : k \in 0..MaxExtra }

Pages == { pre \o Menu(n) \o post : pre \in Extras, post \in Extras, n \in 0..MaxMenu }

\* new URL(path, baseUrl).href
FullUrl(a) ==
    [host |-> IF a.form = "external" THEN "other" ELSE "site",
     dir |-> CASE a.form \in {"page", "absolute", "external"} -> "products"
               [] a.form = "plain" -> "about"
               [] a.form = "pdf" -> "files"
               [] OTHER -> "docs",
     file |-> a.file,
     pdf |-> a.form \in {"pdf", "pdfQuery"},
     query |-> a.form = "pdfQuery"]

\* pdfRegex matches the href: it holds ".pdf"
IsPdfHref(a) == a.form \in {"pdf", "pdfQuery", "invalid"}

\* new URL(...) throws
IsInvalid(a) == a.form = "invalid"

\* linkPath.endsWith('.pdf') || linkPath.startsWith('http')
Skipped(a) == a.form \in {"pdf", "absolute", "invalid"}

\* the words looked for in the link text and in the path
LooksLikeProduct(a) ==
    \/ a.text \in {"Products", "Our products"}
    \/ a.form \in {"page", "external", "pdfQuery"}

\* the first loop: PDF links whose file name holds a documentation word
RECURSIVE PdfCandidates(_)
PdfCandidates(html) ==
    IF html = <<>> THEN <<>>
    ELSE LET a == Head(html)
         IN (IF IsPdfHref(a) /\ ~IsInvalid(a) /\ a.word
             THEN <<[url |-> FullUrl(a), description |-> <<"file", a.file>>]>>
             ELSE <<>>)
            \o PdfCandidates(Tail(html))

\* the second loop: relative links of the site's host that look like
\* product documentation
RECURSIVE LinkCandidates(_)
LinkCandidates(html) ==
    IF html = <<>> THEN <<>>
    ELSE LET a == Head(html)
         IN (IF ~Skipped(a) /\ FullUrl(a).host = "site" /\ LooksLikeProduct(a)
             THEN <<[url |-> FullUrl(a),
                     description |-> IF a.text = "" THEN <<"Product Page">> ELSE <<a.text>>]>>
             ELSE <<>>)
            \o LinkCandidates(Tail(html))

discoveredUrls(html) == PdfCandidates(html) \o LinkCandidates(html)

\* A variant that keeps every entry.
UniqueKeepingAll(list) == list

\* list.filter((item, index, self) => index === self.findIndex(t => t.url === item.url))
Unique(list) ==
    LET keep == { i \in 1..Len(list) : \A j \in 1..(i - 1) : list[j].url # list[i].url }
        RECURSIVE Pick(_)
        Pick(i) == IF i > Len(list) THEN <<>>
                   ELSE (IF i \in keep THEN <<list[i]>> ELSE <<>>) \o Pick(i + 1)
    IN Pick(1)

\* list.slice(0, 10)
Slice(list, n) == SubSeq(list, 1, IF Len(list) < n THEN Len(list) ELSE n)

discoverProductUrls(response, html) ==
    IF response # "ok" THEN <<>>
    ELSE Slice(Unique(discoveredUrls(html)), UrlLimit)

DiscoverProductUrls ==
    /\ DiscoverOnly
    /\ dp_pc = "call"
    /\ dp_pc' = "done"
    /\ dp_outcome' = [kind |-> "return", value |-> discoverProductUrls(dp_response, dp_html)]
    /\ UNCHANGED <<dp_response, dp_html>>

DiscoverInit ==
    /\ dp_pc = "call"
    /\ dp_response \in {"rejects", "not ok", "text rejects", "ok"}
    /\ dp_html \in Pages
    /\ dp_outcome = [kind |-> "none", value |-> <<>>]

DiscoverIdle ==
    /\ dp_pc = "idle"
    /\ dp_response = "none"
    /\ dp_html = <<>>
    /\ dp_outcome = [kind |-> "none", value |-> <<>>]

DiscoverNext == DiscoverProductUrls

----------------------------------------------------------------------------
(* The batch handlers: POST of research-batch and of onboarding            *)
(* process-competitor                                                      *)

MaxBatch == 3

BatchNames == {"Acme", "Zed"}

BatchRequests == UNION { [1..n -> BatchNames] : n \in 0..MaxBatch }

\* What can happen while one competitor is processed: nothing wrong, the
\* insert of the competitor row reports an error, or the research and
\* analysis fails (the call to add-from-portfolio fails or answers an
\* error; researchAndAnalyzeCompetitor raises).
Fates == {"ok", "insert error", "research fails"}

InsertMessage == <<"duplicate key">>
ResearchMessage == <<"Claude API error 500: ">>

Succeeded(name) == [name |-> name, success |-> TRUE, error |-> <<>>]
Failed(name, message) == [name |-> name, success |-> FALSE, error |-> message]

\* research-batch: processCompetitor inside the try/catch of the loop. The
\* insert's error is raised and caught by the loop; a failed research is
\* caught inside processCompetitor, which returns success: true.
ResearchBatchEntry(name, fate) ==
    IF fate = "insert error"
    THEN Failed(name, <<"Failed to create competitor: ">> \o InsertMessage)
    ELSE Succeeded(name)

\* onboarding: the insert's error is pushed as a failed entry, a raise of
\* researchAndAnalyzeCompetitor is caught by the loop's catch.
OnboardingEntry(name, fate) ==
    CASE fate = "insert error" -> Failed(name, InsertMessage)
      [] fate = "research fails" -> Failed(name, ResearchMessage)
      [] OTHER -> Succeeded(name)

Entry(handler, name, fate) ==
    IF handler = "research-batch" THEN ResearchBatchEntry(name, fate)
    ELSE OnboardingEntry(name, fate)

\* results.filter(r => r.success).length
SuccessCount(entries) == Cardinality({ k \in 1..Len(entries) : entries[k].success })

NoResponse == [status |-> 0, processed |-> 0, results |-> <<>>]

\* The handler up to its loop: a body that request.json() cannot read
\* raises, and the outer catch answers 500; onboarding then resolves the
\* user and answers 401 when there is none; an empty list of competitors
\* is answered 400 (if (!competitors || competitors.length === 0)).
BatchBegin ==
    /\ BatchOnly
    /\ bt_pc = "begin"
    /\ IF ~bt_readable
       THEN /\ bt_pc' = "done"
            /\ bt_response' = [NoResponse EXCEPT !.status = 500]
       ELSE IF bt_handler = "onboarding" /\ ~bt_user
       THEN /\ bt_pc' = "done"
            /\ bt_response' = [NoResponse EXCEPT !.status = 401]
       ELSE IF bt_competitors = <<>>
       THEN /\ bt_pc' = "done"
            /\ bt_response' = [NoResponse EXCEPT !.status = 400]
       ELSE /\ bt_pc' = "loop"
            /\ UNCHANGED bt_response
    /\ UNCHANGED <<bt_handler, bt_readable, bt_user, bt_competitors, bt_i, bt_results, bt_fates>>

\* One iteration of the loop over the competitors.
BatchItem ==
    /\ BatchOnly
    /\ bt_pc = "loop"
    /\ bt_i <= Len(bt_competitors)
    /\ \E fate \in Fates :
         /\ bt_fates' = Append(bt_fates, fate)
         /\ bt_results' = Append(bt_results, Entry(bt_handler, bt_competitors[bt_i], fate))
    /\ bt_i' = bt_i + 1
    /\ bt_pc' = IF bt_i' <= Len(bt_competitors) THEN "loop" ELSE "respond"
    /\ UNCHANGED <<bt_handler, bt_readable, bt_user, bt_competitors, bt_response>>

\* return NextResponse.json({ success: true, companiesProcessed, ... })
BatchRespond ==
    /\ BatchOnly
    /\ bt_pc = "respond"
    /\ bt_pc' = "done"
    /\ bt_response' = [status |-> 200, processed |-> SuccessCount(bt_results),
                       results |-> bt_results]
    /\ UNCHANGED <<bt_handler, bt_readable, bt_user, bt_competitors, bt_i, bt_results, bt_fates>>

BatchInit ==
    /\ bt_pc = "begin"
    /\ bt_handler \in {"research-batch", "onboarding"}
    /\ bt_readable \in BOOLEAN
    /\ bt_user \in BOOLEAN
    /\ bt_handler = "research-batch" => bt_user
    /\ bt_competitors \in BatchRequests
    /\ bt_i = 1
    /\ bt_results = <<>>
    /\ bt_fates = <<>>
    /\ bt_response = NoResponse

BatchIdle ==
    /\ bt_pc = "idle"
    /\ bt_handler = "none"
    /\ bt_readable = FALSE
    /\ bt_user = FALSE
    /\ bt_competitors = <<>>
    /\ bt_i = 1
    /\ bt_results = <<>>
    /\ bt_fates = <<>>
    /\ bt_response = NoResponse

BatchNext == BatchBegin \/ BatchItem \/ BatchRespond

----------------------------------------------------------------------------
(* extractAbstractFromXml and extractDescriptionFromXml                    *)

MaxElements == 2

MinAbstractLength == 10

\* The elements the two pattern lists look for, in list order.
AbstractPatterns == <<"abstract", "us-abstract", "subdoc-abstract">>
DescriptionPatterns ==
    <<"description", "us-description", "subdoc-description", "specification">>

FieldTags == {"abstract", "us-abstract", "subdoc-abstract", "description",
              "us-description", "subdoc-description", "specification"}

OpenTag(tag) ==
    CASE tag = "abstract" -> "<abstract>"
      [] tag = "us-abstract" -> "<us-abstract>"
      [] tag = "subdoc-abstract" -> "<subdoc-abstract>"
      [] tag = "description" -> "<description>"
      [] tag = "us-description" -> "<us-description>"
      [] tag = "subdoc-description" -> "<subdoc-description>"
      [] OTHER -> "<specification>"

CloseTag(tag) ==
    CASE tag = "abstract" -> "</abstract>"
      [] tag = "us-abstract" -> "</us-abstract>"
      [] tag = "subdoc-abstract" -> "</subdoc-abstract>"
      [] tag = "description" -> "</description>"
      [] tag = "us-description" -> "</us-description>"
      [] tag = "subdoc-description" -> "</subdoc-description>"
      [] OTHER -> "</specification>"

\* What an element can hold: white space, a short word, a long word, a
\* long word in a paragraph.
FieldContents == { <<" ">>, <<Word4>>, <<Word11>>, <<"<p>", Word11, "</p>">> }

\* A document is a sequence of elements, written as its tokens.
FieldElements ==
    { <<OpenTag(tag)>> \o c \o <<CloseTag(tag)>> : tag \in FieldTags, c \in FieldContents }

RECURSIVE Flatten(_)
Flatten(elements) ==
    IF elements = <<>> THEN <<>> ELSE Head(elements) \o Flatten(Tail(elements))

FieldDocs == { Flatten(es) : es \in UNION { [1..n -> FieldElements] : n \in 0..MaxElements } }

NoMatch == [found |-> FALSE, group |-> <<>>]

\* xml.match(/<tag[^>]*>([\s\S]*?)<\/tag>/i): the first opening tag that has
\* a closing tag after it, and what stands before the first such closing tag.
Match(xml, tag) ==
    LET opens == { i \in 1..Len(xml) :
                     xml[i] = OpenTag(tag) /\ \E j \in (i + 1)..Len(xml) : xml[j] = CloseTag(tag) }
    IN  IF opens = {} THEN NoMatch
        ELSE LET i == Least(opens)
                 j == Least({ k \in (i + 1)..Len(xml) : xml[k] = CloseTag(tag) })
             IN  [found |-> TRUE, group |-> SubSeq(xml, i + 1, j - 1)]

\* lines 559-570: the loop over the patterns, from pattern k on
RECURSIVE AbstractFrom(_, _)
AbstractFrom(xml, k) ==
    IF k > Len(AbstractPatterns) THEN <<>>
    ELSE LET match == Match(xml, AbstractPatterns[k])
         IN  IF match.found /\ Len(CleanText(match.group)) > MinAbstractLength
             THEN CleanText(match.group)
             ELSE AbstractFrom(xml, k + 1)

extractAbstractFromXml(xml) == AbstractFrom(xml, 1)

\* lines 630-640: the loop over the patterns, from pattern k on
RECURSIVE DescriptionFrom(_, _)
DescriptionFrom(xml, k) ==
    IF k > Len(DescriptionPatterns) THEN <<>>
    ELSE LET match == Match(xml, DescriptionPatterns[k])
         IN  IF match.found
             THEN CleanText(match.group)
             ELSE DescriptionFrom(xml, k + 1)

extractDescriptionFromXml(xml) == DescriptionFrom(xml, 1)

\* parsePatentXml calls the two extractors on the document.
ExtractFields ==
    /\ FieldsOnly
    /\ fx_pc = "call"
    /\ fx_pc' = "done"
    /\ fx_abstract' = extractAbstractFromXml(fx_xml)
    /\ fx_description' = extractDescriptionFromXml(fx_xml)
    /\ fx_xml' = fx_xml

FieldsInit ==
    /\ fx_pc = "call"
    /\ fx_xml \in FieldDocs
    /\ fx_abstract = <<>>
    /\ fx_description = <<>>

FieldsIdle ==
    /\ fx_pc = "idle"
    /\ fx_xml = <<>>
    /\ fx_abstract = <<>>
    /\ fx_description = <<>>

FieldsNext == ExtractFields

----------------------------------------------------------------------------
(* resolvePatentIdentifiers                                                *)

\* A field that is absent (undefined) is the empty string.
Absent == ""

\* a || b on strings
OrElse(a, b) == IF a # Absent THEN a ELSE b

\* The records the search hands to the resolver.
InputPatents ==
    [applicationNumberText : {"17/123"},
     patentTitle : {"Widget"},
     patentNumber : {Absent, "111"},
     publicationNumber : {Absent, "US2021-A1"},
     grantDate : {Absent, "2021-01-01"}]

\* The metadata of the detail response.
DetailMetaData ==
    [patentNumber : {Absent, "222"},
     grantDocumentIdentifier : {Absent, "G222"},
     publicationNumber : {Absent, "US2022-A1"},
     pgpubDocumentIdentifier : {Absent, "PG2022"},
     grantDate : {Absent, "2022-02-02"}]

NoMetaData ==
    [patentNumber |-> Absent, grantDocumentIdentifier |-> Absent,
     publicationNumber |-> Absent, pgpubDocumentIdentifier |-> Absent,
     grantDate |-> Absent]

\* What the detail request does: the fetch rejects, the answer is not OK,
\* its json() rejects, or it is OK with metadata.
DetailAnswers ==
    [kind : {"rejects", "nonOK", "json rejects"}, md : {NoMetaData}]
    \cup [kind : {"ok"}, md : DetailMetaData]

NoDetailAnswer == [kind |-> "none", md |-> NoMetaData]

\* A variant that lets the detail response overwrite what the input has.
ResolvedPreferringDetail(patent, md) ==
    [patent EXCEPT
        !.patentNumber = OrElse(OrElse(md.patentNumber, md.grantDocumentIdentifier), @),
        !.publicationNumber = OrElse(OrElse(md.publicationNumber, md.pgpubDocumentIdentifier), @),
        !.grantDate = OrElse(md.grantDate, @)]

\* lines 220-231: the record returned after an OK detail response
Resolved(patent, md) ==
    [patent EXCEPT
        !.patentNumber = OrElse(@, OrElse(md.patentNumber, md.grantDocumentIdentifier)),
        !.publicationNumber = OrElse(@, OrElse(md.publicationNumber, md.pgpubDocumentIdentifier)),
        !.grantDate = OrElse(@, md.grantDate)]

\* line 199: a record that has a grant number is returned as it is; the
\* API key of line 201 is never empty (getApiKey has a default).
ResolveBegin ==
    /\ ResolveOnly
    /\ rs_pc = "begin"
    /\ IF rs_patent.patentNumber # Absent
       THEN rs_pc' = "done" /\ rs_outcome' = [kind |-> "return", value |-> rs_patent]
       ELSE rs_pc' = "detail" /\ rs_outcome' = rs_outcome
    /\ UNCHANGED <<rs_patent, rs_detail>>

\* lines 204-235: the detail request and the record built from it
ResolveDetail ==
    /\ ResolveOnly
    /\ rs_pc = "detail"
    /\ \E ans \in DetailAnswers :
        /\ rs_detail' = ans
        /\ rs_outcome' =
              [kind |-> "return",
               value |-> IF ans.kind = "ok" THEN Resolved(rs_patent, ans.md) ELSE rs_patent]
    /\ rs_pc' = "done"
    /\ rs_patent' = rs_patent

NoResolved == [kind |-> "none", value |-> CHOOSE p \in InputPatents : TRUE]

ResolveInit ==
    /\ rs_pc = "begin"
    /\ rs_patent \in InputPatents
    /\ rs_detail = NoDetailAnswer
    /\ rs_outcome = NoResolved

ResolveIdle ==
    /\ rs_pc = "idle"
    /\ rs_patent = NoResolved.value
    /\ rs_detail = NoDetailAnswer
    /\ rs_outcome = NoResolved

ResolveNext == ResolveBegin \/ ResolveDetail

----------------------------------------------------------------------------
(* Steps 3 and 4 of researchAndAnalyzeCompetitor                           *)
(* (src/lib/competitor-research.ts, lines 320-497) in two runs for the     *)
(* same competitor id. Each run is a request of its own; the runs share    *)
(* the table competitor_documents and nothing else. Every await of the     *)
(* code is a point where the other run may take a step. Both runs receive  *)
(* the same research result and the same registry results.                 *)

Runs == {1, 2}

\* The research results and the registry results of the runs: a website
\* URL, no, one or two products (two of them of one name), no or one patent.
RunResearch == { o \in ResearchObjects : o.websiteUrl = SiteUrl }
RunPatents == { l \in PatentLists : Len(l) <= 1 }

\* The competitor id both runs are given.
RunCompetitor == ExistingId

Other(r) == CHOOSE o \in Runs : o # r

UnderWay(r) == rn_pc[r] \notin {"idle", "done"}

\* The end of an iteration of the products loop of run r.
RunNextProduct(r) ==
    IF rn_i[r] < Len(rn_research.products)
    THEN rn_i' = [rn_i EXCEPT ![r] = @ + 1] /\ rn_pc' = [rn_pc EXCEPT ![r] = "productCheck"]
    ELSE rn_i' = [rn_i EXCEPT ![r] = 1] /\ rn_pc' = [rn_pc EXCEPT ![r] = "patentSearch"]

\* The end of an iteration of the patents loop of run r.
RunNextPatent(r) ==
    IF rn_i[r] < Min(Len(rn_patents), PatentsCap)
    THEN rn_i' = [rn_i EXCEPT ![r] = @ + 1] /\ rn_pc' = [rn_pc EXCEPT ![r] = "patentCheck"]
    ELSE rn_i' = [rn_i EXCEPT ![r] = 1] /\ rn_pc' = [rn_pc EXCEPT ![r] = "done"]

\* The run arrives at step 3 with the research result and its competitor id.
RunBegin(r) ==
    /\ RunsOnly
    /\ rn_pc[r] = "idle"
    /\ rn_pc' = [rn_pc EXCEPT ![r] =
                    IF Len(rn_research.products) > 0 THEN "productCheck" ELSE "patentSearch"]
    /\ rn_first' = IF rn_first = {} THEN {r} ELSE rn_first
    /\ rn_overlap' = (rn_overlap \/ UnderWay(Other(r)))
    /\ UNCHANGED <<rn_i, rn_productsAdded, rn_patentsFound, rn_research, rn_patents,
                   rn_docs, rn_checkFailed, rn_insertFailed>>

\* lines 323-325: the query for a document with the product's name; a query
\* that fails gives data null and the loop goes on to the insert.
RunProductCheck(r) ==
    /\ RunsOnly
    /\ rn_pc[r] = "productCheck"
    /\ \E error \in BOOLEAN :
        /\ IF ~error /\ ExistingIn(rn_docs, RunCompetitor, "document_name",
                                   rn_research.products[rn_i[r]].name)
           THEN RunNextProduct(r)
           ELSE rn_pc' = [rn_pc EXCEPT ![r] = "productInsert"] /\ rn_i' = rn_i
        /\ rn_checkFailed' = IF error THEN rn_checkFailed \cup {r} ELSE rn_checkFailed
    /\ UNCHANGED <<rn_productsAdded, rn_patentsFound, rn_research, rn_patents, rn_docs,
                   rn_first, rn_overlap, rn_insertFailed>>

\* lines 327-357: verify the URL and insert the product's document
RunProductInsert(r) ==
    /\ RunsOnly
    /\ rn_pc[r] = "productInsert"
    /\ \E head \in HeadAnswers \cup {NoHead}, error \in BOOLEAN :
        LET p == rn_research.products[rn_i[r]]
            check == verifyUrl(head)
            isLive == p.url # NoUrl /\ check.live
            url == IF isLive THEN p.url ELSE NoUrl
        IN  /\ (head = NoHead) <=> (p.url = NoUrl)
            /\ IF error
               THEN /\ UNCHANGED <<rn_docs, rn_productsAdded>>
                    /\ rn_insertFailed' = rn_insertFailed \cup {r}
               ELSE /\ rn_docs' = Append(rn_docs,
                                         ProductDoc(RunCompetitor, p.name,
                                                    SourceUrl(url, rn_research.websiteUrl),
                                                    isLive))
                    /\ rn_productsAdded' = [rn_productsAdded EXCEPT ![r] = @ + 1]
                    /\ UNCHANGED rn_insertFailed
    /\ RunNextProduct(r)
    /\ UNCHANGED <<rn_patentsFound, rn_research, rn_patents, rn_first, rn_overlap,
                   rn_checkFailed>>

\* line 365: searchUSPTOPatents answers with the registry results
RunPatentSearch(r) ==
    /\ RunsOnly
    /\ rn_pc[r] = "patentSearch"
    /\ rn_pc' = [rn_pc EXCEPT ![r] =
                    IF Min(Len(rn_patents), PatentsCap) > 0 THEN "patentCheck" ELSE "done"]
    /\ rn_i' = [rn_i EXCEPT ![r] = 1]
    /\ UNCHANGED <<rn_productsAdded, rn_patentsFound, rn_research, rn_patents, rn_docs,
                   rn_first, rn_overlap, rn_checkFailed, rn_insertFailed>>

\* lines 378-385: the query for a document with the application number
RunPatentCheck(r) ==
    /\ RunsOnly
    /\ rn_pc[r] = "patentCheck"
    /\ \E error \in BOOLEAN :
        /\ IF ~error /\ ExistingIn(rn_docs, RunCompetitor, "application_number",
                                   rn_patents[rn_i[r]].applicationNumberText)
           THEN RunNextPatent(r)
           ELSE rn_pc' = [rn_pc EXCEPT ![r] = "patentInsert"] /\ rn_i' = rn_i
        /\ rn_checkFailed' = IF error THEN rn_checkFailed \cup {r} ELSE rn_checkFailed
    /\ UNCHANGED <<rn_productsAdded, rn_patentsFound, rn_research, rn_patents, rn_docs,
                   rn_first, rn_overlap, rn_insertFailed>>

\* lines 390-496: look for the patent's XML and insert its document
RunPatentInsert(r) ==
    /\ RunsOnly
    /\ rn_pc[r] = "patentInsert"
    /\ \E xmlUrl \in BOOLEAN, error \in BOOLEAN :
        IF error
        THEN /\ UNCHANGED <<rn_docs, rn_patentsFound>>
             /\ rn_insertFailed' = rn_insertFailed \cup {r}
        ELSE /\ rn_docs' = Append(rn_docs,
                                  PatentDoc(RunCompetitor, rn_patents[rn_i[r]], xmlUrl))
             /\ rn_patentsFound' = [rn_patentsFound EXCEPT ![r] = @ + 1]
             /\ UNCHANGED rn_insertFailed
    /\ RunNextPatent(r)
    /\ UNCHANGED <<rn_productsAdded, rn_research, rn_patents, rn_first, rn_overlap,
                   rn_checkFailed>>

RunsInit ==
    /\ rn_pc = [r \in Runs |-> "idle"]
    /\ rn_i = [r \in Runs |-> 1]
    /\ rn_productsAdded = [r \in Runs |-> 0]
    /\ rn_patentsFound = [r \in Runs |-> 0]
    /\ rn_research \in RunResearch
    /\ rn_patents \in RunPatents
    /\ rn_docs = <<>>
    /\ rn_first = {}
    /\ rn_overlap = FALSE
    /\ rn_checkFailed = {}
    /\ rn_insertFailed = {}

RunsIdle ==
    /\ rn_pc = [r \in Runs |-> "done"]
    /\ rn_i = [r \in Runs |-> 1]
    /\ rn_productsAdded = [r \in Runs |-> 0]
    /\ rn_patentsFound = [r \in Runs |-> 0]
    /\ rn_research = FallbackResearch
    /\ rn_patents = <<>>
    /\ rn_docs = <<>>
    /\ rn_first = {}
    /\ rn_overlap = FALSE
    /\ rn_checkFailed = {}
    /\ rn_insertFailed = {}

RunsNext ==
    \E r \in Runs :
        \/ RunBegin(r)
        \/ RunProductCheck(r)
        \/ RunProductInsert(r)
        \/ RunPatentSearch(r)
        \/ RunPatentCheck(r)
        \/ RunPatentInsert(r)

----------------------------------------------------------------------------
(* The patents table and the statements that write it: the inserts of the  *)
(* upload route and of the downloader, the XML viewer and the delete       *)
(* route. One action is one statement on the store: the select and the     *)
(* update of the viewer are two, and the statements of other requests run  *)
(* between them.                                                           *)

\* A row of the patents table; no row yet, and the row deleted.
PatentRow(status, xml) == [status |-> status, xml_content |-> xml]
NoPatent == PatentRow("none", FALSE)
DeletedPatent == PatentRow("deleted", FALSE)

\* the insert of a row of the patents table: by the upload route, which
\* sets no status (the column's default, written "uploaded" here); by the
\* downloader, with status xml_available when it found an XML URL, the XML
\* itself held only if its fetch succeeded, and metadata_only otherwise; by
\* storePatentMetadata, with status metadata_only
StoreInsertPatent ==
    /\ PatentsOnly
    /\ pt_patent = NoPatent
    /\ UNCHANGED pt_view
    /\ pt_patent' \in { PatentRow("uploaded", FALSE),
                       PatentRow("xml_available", TRUE),
                       PatentRow("xml_available", FALSE),
                       PatentRow("metadata_only", FALSE) }

\* The requests to the XML viewer that ask for the row.
Viewers == {"v1", "v2"}

\* What the rest of the viewer adds to a request: nothing; the 404 of a
\* docId whose select fails; the XML held by the competitor document of
\* docId (Source 2); the XML of a live fetch, for the document of docId or,
\* when no XML was found so far, for the appNumber or patentNumber given
\* (Source 3); the 500 of the catch, when a statement, a fetch or the
\* parsing of the XML throws.
ViewerRest == {"none", "not found", "database", "live", "failed"}

\* The answer of a request that stood at `source` after Source 1.
ViewAnswer(source, rest) == IF rest = "none" THEN source ELSE rest

\* the XML viewer asked for a patent of the user, up to the select and, when
\* no live fetch for the row follows, to the answer: a select that throws
\* answers 500; one that answers an error, as it does when there is no
\* such row, answers 404; a row that holds xml_content is only read; a row
\* without it that has an application or patent number goes on to the live
\* fetch for the row
StoreViewSelect(v) ==
    /\ PatentsOnly
    /\ pt_view[v] = "start"
    /\ UNCHANGED pt_patent
    /\ \E select \in {"row", "error", "throws"}, numbered \in BOOLEAN, rest \in ViewerRest :
         pt_view' = [pt_view EXCEPT ![v] =
            IF select = "throws" THEN "failed"
            ELSE IF select = "error" \/ pt_patent \in {NoPatent, DeletedPatent} THEN "not found"
            ELSE IF pt_patent.xml_content THEN ViewAnswer("database", rest)
            ELSE IF numbered THEN "fetch"
            ELSE ViewAnswer("no xml", rest)]

\* the live fetch for the row and what follows it: a fetch that finds the
\* XML is cached by an update of the row with that id, which sets
\* xml_content and status xml_available whatever the row holds by now, and
\* changes nothing when the row was deleted meanwhile or the update fails
\* (its answer is not looked at); then Source 2 and Source 3, and the answer
StoreViewUpdate(v) ==
    /\ PatentsOnly
    /\ pt_view[v] = "fetch"
    /\ \E found, updated \in BOOLEAN, rest \in ViewerRest :
         /\ pt_view' = [pt_view EXCEPT ![v] =
                ViewAnswer(IF found THEN "live" ELSE "no xml", rest)]
         /\ pt_patent' = IF found /\ updated /\ pt_patent \notin {NoPatent, DeletedPatent}
                         THEN PatentRow("xml_available", TRUE)
                         ELSE pt_patent

\* the delete route, type patent
StoreDeletePatent ==
    /\ PatentsOnly
    /\ pt_patent \notin {NoPatent, DeletedPatent}
    /\ pt_patent' = DeletedPatent
    /\ UNCHANGED pt_view

PatentsInit == pt_patent = NoPatent /\ pt_view = [v \in Viewers |-> "start"]

PatentsIdle == pt_patent = NoPatent /\ pt_view = [v \in Viewers |-> "start"]

PatentsNext ==
    \/ StoreInsertPatent
    \/ StoreDeletePatent
    \/ \E v \in Viewers : StoreViewSelect(v) \/ StoreViewUpdate(v)

----------------------------------------------------------------------------
(* Specifications: one per function, the other functions idle              *)

InitOcr == OcrInit /\ ClaudeIdle /\ SearchIdle /\ XmlIdle /\ PipeIdle /\ ParseIdle /\ ClaimsIdle /\ StoreIdle /\ DiscoverIdle /\ BatchIdle /\ FieldsIdle /\ ResolveIdle /\ RunsIdle /\ PatentsIdle

SpecOcr == InitOcr /\ [][OcrNext]_vars

InitClaude == ClaudeInit /\ OcrIdle /\ SearchIdle /\ XmlIdle /\ PipeIdle /\ ParseIdle /\ ClaimsIdle /\ StoreIdle /\ DiscoverIdle /\ BatchIdle /\ FieldsIdle /\ ResolveIdle /\ RunsIdle /\ PatentsIdle

SpecClaude == InitClaude /\ [][ClaudeNext]_vars

\* Each awaited request and each wait completes.
FairSpecClaude == SpecClaude /\ WF_vars(ClaudeNext)

InitSearch == SearchInit /\ OcrIdle /\ ClaudeIdle /\ XmlIdle /\ PipeIdle /\ ParseIdle /\ ClaimsIdle /\ StoreIdle /\ DiscoverIdle /\ BatchIdle /\ FieldsIdle /\ ResolveIdle /\ RunsIdle /\ PatentsIdle

SpecSearch == InitSearch /\ [][SearchNext]_vars

InitXml == XmlInit /\ OcrIdle /\ ClaudeIdle /\ SearchIdle /\ PipeIdle /\ ParseIdle /\ ClaimsIdle /\ StoreIdle /\ DiscoverIdle /\ BatchIdle /\ FieldsIdle /\ ResolveIdle /\ RunsIdle /\ PatentsIdle

SpecXml == InitXml /\ [][XmlNext]_vars

InitPipeline == PipeInit /\ OcrIdle /\ ClaudeIdle /\ SearchIdle /\ XmlIdle /\ ParseIdle /\ ClaimsIdle /\ StoreIdle /\ DiscoverIdle /\ BatchIdle /\ FieldsIdle /\ ResolveIdle /\ RunsIdle /\ PatentsIdle

SpecPipeline == InitPipeline /\ [][PipeNext]_vars

InitParse == ParseInit /\ OcrIdle /\ ClaudeIdle /\ SearchIdle /\ XmlIdle /\ PipeIdle /\ ClaimsIdle /\ StoreIdle /\ DiscoverIdle /\ BatchIdle /\ FieldsIdle /\ ResolveIdle /\ RunsIdle /\ PatentsIdle

SpecParse == InitParse /\ [][ParseNext]_vars

InitClaims == ClaimsInit /\ OcrIdle /\ ClaudeIdle /\ SearchIdle /\ XmlIdle /\ PipeIdle /\ ParseIdle /\ StoreIdle /\ DiscoverIdle /\ BatchIdle /\ FieldsIdle /\ ResolveIdle /\ RunsIdle /\ PatentsIdle

SpecClaims == InitClaims /\ [][ClaimsNext]_vars

InitStore == StoreInit /\ OcrIdle /\ ClaudeIdle /\ SearchIdle /\ XmlIdle /\ PipeIdle /\ ParseIdle /\ ClaimsIdle /\ DiscoverIdle /\ BatchIdle /\ FieldsIdle /\ ResolveIdle /\ RunsIdle /\ PatentsIdle

SpecStore == InitStore /\ [][StoreNext]_vars

InitDiscover == DiscoverInit /\ OcrIdle /\ ClaudeIdle /\ SearchIdle /\ XmlIdle /\ PipeIdle /\ ParseIdle /\ ClaimsIdle /\ StoreIdle /\ BatchIdle /\ FieldsIdle /\ ResolveIdle /\ RunsIdle /\ PatentsIdle

SpecDiscover == InitDiscover /\ [][DiscoverNext]_vars

InitBatch == BatchInit /\ OcrIdle /\ ClaudeIdle /\ SearchIdle /\ XmlIdle /\ PipeIdle /\ ParseIdle /\ ClaimsIdle /\ StoreIdle /\ DiscoverIdle /\ FieldsIdle /\ ResolveIdle /\ RunsIdle /\ PatentsIdle

SpecBatch == InitBatch /\ [][BatchNext]_vars

InitFields == FieldsInit /\ OcrIdle /\ ClaudeIdle /\ SearchIdle /\ XmlIdle /\ PipeIdle /\ ParseIdle /\ ClaimsIdle /\ StoreIdle /\ DiscoverIdle /\ BatchIdle /\ ResolveIdle /\ RunsIdle /\ PatentsIdle

SpecFields == InitFields /\ [][FieldsNext]_vars

InitResolve == ResolveInit /\ OcrIdle /\ ClaudeIdle /\ SearchIdle /\ XmlIdle /\ PipeIdle /\ ParseIdle /\ ClaimsIdle /\ StoreIdle /\ DiscoverIdle /\ BatchIdle /\ FieldsIdle /\ RunsIdle /\ PatentsIdle

SpecResolve == InitResolve /\ [][ResolveNext]_vars

InitRuns == RunsInit /\ OcrIdle /\ ClaudeIdle /\ SearchIdle /\ XmlIdle /\ PipeIdle /\ ParseIdle /\ ClaimsIdle /\ StoreIdle /\ DiscoverIdle /\ BatchIdle /\ FieldsIdle /\ ResolveIdle /\ PatentsIdle

SpecRuns == InitRuns /\ [][RunsNext]_vars

InitPatents == PatentsInit /\ OcrIdle /\ ClaudeIdle /\ SearchIdle /\ XmlIdle /\ PipeIdle /\ ParseIdle /\ ClaimsIdle /\ StoreIdle /\ DiscoverIdle /\ BatchIdle /\ FieldsIdle /\ ResolveIdle /\ RunsIdle

SpecPatents == InitPatents /\ [][PatentsNext]_vars

----------------------------------------------------------------------------
(* Properties of extractPdfWithPages                                       *)

EndsWith(s, t) == Len(t) <= Len(s) /\ SubSeq(s, Len(s) - Len(t) + 1, Len(s)) = t

\* C2: in every successful extraction pages.length = totalPages and
\* pages[i].pageNumber = i+1 (1-based here: pages[i].pageNumber = i), whatever
\* page numbers the LINE blocks carry and in whatever order they arrive.
C2_PagesContiguous ==
    ocr_outcome.kind = "return" =>
        /\ Len(ocr_outcome.pages) = ocr_outcome.totalPages
        /\ \A i \in 1..Len(ocr_outcome.pages) : ocr_outcome.pages[i].pageNumber = i

\* A successful extraction gathered over a continuation token, in which the
\* only line is on page 2 (page 1 has none).
C2_Witness ==
    /\ ocr_outcome.kind = "return"
    /\ ocr_tokens > 0
    /\ ocr_outcome.totalPages = 2
    /\ ocr_outcome.pages[1].rawText = <<>>

\* The positions, in arrival order, of the LINE blocks of page p.
LinePositions(bs, p) == { i \in 1..Len(bs) : IsLine(bs[i]) /\ bs[i].Page = p }

\* The texts at a set of positions, in increasing order of position.
RECURSIVE TextsAt(_, _)
TextsAt(bs, S) ==
    IF S = {} THEN <<>>
    ELSE LET i == CHOOSE k \in S : \A j \in S : k <= j
         IN <<bs[i].Text>> \o TextsAt(bs, S \ {i})

\* C13: in a successful extraction totalPages is the largest page number
\* carried by a LINE block; for each page p of 1..totalPages rawText is the
\* texts of the LINE blocks of page p, in arrival order, joined by newlines,
\* and text is rawText with every run of white space collapsed to one space
\* and trimmed; a page without LINE block has the empty text.
C13_PageTexts ==
    ocr_outcome.kind = "return" =>
        LET linePages == { allBlocks[i].Page : i \in { k \in 1..Len(allBlocks) : IsLine(allBlocks[k]) } }
        IN /\ ocr_outcome.totalPages \in linePages \cup {0}
           /\ \A p \in linePages : p <= ocr_outcome.totalPages
           /\ Len(ocr_outcome.pages) = ocr_outcome.totalPages
           /\ \A p \in 1..ocr_outcome.totalPages :
                LET pg == ocr_outcome.pages[p]
                IN /\ pg.rawText = Join(TextsAt(allBlocks, LinePositions(allBlocks, p)), <<"\n">>)
                   /\ pg.text = Trim(CollapseWs(pg.rawText))
                   /\ \A k \in 1..Len(pg.text) :
                        /\ pg.text[k] # "\n"
                        /\ (k < Len(pg.text) /\ pg.text[k] = " ") => pg.text[k + 1] # " "
                   /\ (pg.text # <<>>) => (pg.text[1] # " " /\ pg.text[Len(pg.text)] # " ")
                   /\ LinePositions(allBlocks, p) = {} => pg.text = <<>>

\* A successful extraction of two lines of page 2, the second with inner
\* and outer white space: page 1 is empty, page 2 holds both lines.
C13_Witness ==
    /\ ocr_outcome.kind = "return"
    /\ ocr_outcome.totalPages = 2
    /\ ocr_outcome.pages[1].text = <<>>
    /\ ocr_outcome.pages[2].rawText = <<"H", "i", "\n", " ", "a", "\r", " ", "b">>
    /\ ocr_outcome.pages[2].text = <<"H", "i", " ", "a", " ", "b">>

\* C3: on every path the delete of the staged object is attempted exactly
\* once, after all other requests, and a failed delete leaves the outcome
\* (the result or the error) as it was.
C3_CleanupAlways ==
    /\ ocr_deletes = (IF ocr_pc = "done" THEN 1 ELSE 0)
    /\ ocr_calls = 0
    /\ ocr_pc = "done" => ocr_outcome = ocr_pending /\ ocr_outcome.kind \in {"return", "throw"}

\* The delete failed after a successful extraction and the result is returned.
C3_Witness ==
    /\ ocr_pc = "done"
    /\ ocr_deleteOk = "failed"
    /\ ocr_outcome.kind = "return"
    /\ ocr_outcome.totalPages > 0

C10_State ==
    /\ ocr_polls <= maxAttempts
    /\ ocr_outcome.kind = "return" => ocr_lastStatus.status = "SUCCEEDED"
    /\ ocr_lastStatus.status = "FAILED" =>
          /\ ocr_pc \in {"finally", "done"}
          /\ ocr_pending.kind = "throw"
          /\ EndsWith(ocr_pending.message,
                      IF ocr_lastStatus.message = <<>> THEN <<"Unknown error">>
                      ELSE ocr_lastStatus.message)
    /\ (ocr_polls = maxAttempts /\ ocr_lastStatus.status \notin {"SUCCEEDED", "FAILED"}
          /\ ocr_pc \in {"finally", "done"}) =>
          /\ ocr_pending.kind = "throw"

C10_Step ==
    ocr_lastStatus.status \in {"SUCCEEDED", "FAILED"} => ocr_polls' = ocr_polls

\* C10: at most 60 status polls per call; FAILED ends the call with an error
\* carrying the status message, SUCCEEDED ends polling, 60 polls in progress
\* raise an error, and a result is returned only for a SUCCEEDED job.
C10_PollCeiling == []C10_State /\ [][C10_Step]_vars

\* The 60th poll still reported the job in progress and the call raised the
\* timeout error.
C10_Witness ==
    /\ ocr_pc = "done"
    /\ ocr_polls = maxAttempts
    /\ ocr_lastStatus.status = "IN_PROGRESS"
    /\ ocr_outcome = Wrapped(TimeoutError)

----------------------------------------------------------------------------
(* Properties of callClaude                                                *)

C5_State ==
    /\ cl_requests <= maxRetries + 1
    /\ Len(cl_waits) <= maxRetries
    /\ cl_429s = maxRetries + 1 => cl_pc = "done" /\ cl_outcome.kind = "throw"
    /\ (cl_last.kind = "response" /\ cl_last.status = 200) =>
          /\ cl_pc = "done"
          /\ cl_last.json \in {"object", "noContent"} =>
                cl_outcome = [kind |-> "return", text |-> ResponseText(cl_last.content)]
          /\ cl_last.json \in {"null", "notJson"} => cl_outcome.kind = "throw"

C5_Step ==
    /\ (cl_requests' > cl_requests /\ cl_requests > 0) =>
          cl_last.kind = "response" /\ cl_last.status = 429
    /\ (cl_last.kind = "response" /\ cl_last.status = 200) => cl_requests' = cl_requests

\* C5: at most 5 requests per call, a request is repeated only after a 429,
\* five 429 answers end the call with an error, a successful answer ends it
\* with that answer's text and no further request (an OK answer whose body
\* cannot be read as a JSON object has no text and ends the call with an
\* error, also with no further request), and every call ends.
C5_BoundedRetries == []C5_State /\ [][C5_Step]_vars /\ <>(cl_pc = "done")

\* The third request succeeded after two 429 answers.
C5_Witness ==
    /\ cl_pc = "done"
    /\ cl_requests = 3 /\ cl_429s = 2
    /\ cl_outcome.kind = "return"
    /\ cl_outcome.text = <<"a", "\n", "b">>

C6_State ==
    (cl_last.kind = "response" /\ cl_last.status \notin {200, 429}) =>
        /\ cl_pc = "done"
        /\ cl_outcome.kind = "throw"
        /\ cl_outcome.status = cl_last.status
        /\ cl_outcome.body = cl_last.body

C6_Step ==
    (cl_last.kind = "response" /\ cl_last.status \notin {200, 429}) =>
        cl_requests' = cl_requests /\ cl_waits' = cl_waits

\* C6 as stated: a non-success answer other than 429 raises at once, on any
\* attempt, with no wait and no further request; the error carries the
\* status and the body of the answer.
C6_FatalError == []C6_State /\ [][C6_Step]_vars

\* What holds of such an answer: the call raises at once, with no wait and
\* no further request, and when the body could be read the error carries
\* status and body.
FatalErrorWhenBodyRead ==
    /\ [][C6_Step]_vars
    /\ [](( cl_last.kind = "response" /\ cl_last.status \notin {200, 429}) =>
            /\ cl_pc = "done"
            /\ cl_outcome.kind = "throw"
            /\ cl_last.readable =>
                  cl_outcome = ApiError(cl_last.status, cl_last.body))

\* A 500 answer with a body on the second attempt, after one 429.
C6_Witness ==
    /\ cl_pc = "done"
    /\ cl_requests = 2 /\ cl_429s = 1
    /\ cl_last.status = 500 /\ cl_last.body # <<>>
    /\ cl_outcome.kind = "throw" /\ cl_outcome.body = cl_last.body

----------------------------------------------------------------------------
(* Properties of searchUSPTOPatents                                        *)

IndexesOf(patents, a) == {k \in 1..Len(patents) : patents[k].applicationNumberText = a}

\* C4 as stated: no two records of the returned list have the same
\* application number, and an application number returned for several name
\* variants is in the list exactly once, as its first row in query order.
C4_FirstOccurrenceKept ==
    /\ \A a \in AppNums : Cardinality(IndexesOf(allPatents, a)) <= 1
    /\ sr_pc = "done" =>
          /\ sr_result = allPatents
          /\ \A a \in AppNums :
                Cardinality(sr_variants[a]) >= 2 =>
                    /\ Cardinality(IndexesOf(sr_result, a)) = 1
                    /\ \A k \in IndexesOf(sr_result, a) : sr_result[k] = sr_first[a]

\* C4 (amended): no two records of the list share an application number; an
\* application number is in the returned list exactly once when one of its
\* rows came from an applicant-filtered query or passed the name post-filter
\* (the first such row is the record kept), and not at all otherwise.
C4_Dedup ==
    /\ \A a \in AppNums : Cardinality(IndexesOf(allPatents, a)) <= 1
    /\ sr_pc = "done" =>
          /\ sr_result = allPatents
          /\ \A a \in AppNums :
                IF sr_firstKept[a] = Null THEN IndexesOf(sr_result, a) = {}
                ELSE /\ Cardinality(IndexesOf(sr_result, a)) = 1
                     /\ \A k \in IndexesOf(sr_result, a) : sr_result[k] = sr_firstKept[a]

\* Two name variants were queried, one application number came back for
\* both and the other for one of them, and the list holds each once.
C4_Witness ==
    /\ sr_pc = "done"
    /\ Len(companyNames) = 2 /\ companyNames[1] # companyNames[2]
    /\ Cardinality(sr_variants[AppA]) = 2 /\ Cardinality(sr_variants[AppB]) = 1
    /\ Len(sr_result) = 2

----------------------------------------------------------------------------
(* Properties of fetchPatentXml                                            *)

FileOps == {"file", "patentFile", "refile"}

\* The position of a request in the order in which the code issues them.
Rank(e) ==
    CASE e.op = "search" /\ e.product = PTGR -> 1
      [] e.op = "file" /\ e.product = PTGR -> 2
      [] e.op = "patentSearch" /\ e.product = PTGR -> 3
      [] e.op = "patentFile" /\ e.product = PTGR -> 4
      [] e.op = "search" /\ e.product = APP -> 5
      [] e.op = "file" /\ e.product = APP -> 6
      [] e.op = "detail" -> 7
      [] e.op = "research" /\ e.product = PTGR -> 8
      [] e.op = "refile" /\ e.product = PTGR -> 9
      [] e.op = "research" /\ e.product = APP -> 10
      [] e.op = "refile" /\ e.product = APP -> 11
      [] e.op = "direct" /\ e.product = PTGR -> 12
      [] e.op = "direct" /\ e.product = APP -> 13
      [] OTHER -> 0

XmlReturned == xml_pc = "done" /\ xml_outcome.kind = "return"

XmlFound == XmlReturned /\ xml_outcome.value # Null

\* The number of XML files fetched right after the search at position i.
FilesAfter(i) ==
    Cardinality({ j \in (i + 1)..Len(xml_trace) :
                    \A k \in (i + 1)..j : xml_trace[k].op \in FileOps })

\* C7 as stated: the files search by patent number comes after the files
\* search of the published-application product, and whenever a patent
\* number is supplied it is attempted before any direct-URL fetch.
C7_PatentSearchBeforeDirect ==
    /\ \A j \in 1..Len(xml_trace) :
         xml_trace[j].op = "patentSearch" =>
            \E k \in 1..(j - 1) : xml_trace[k].op = "search" /\ xml_trace[k].product = APP
    /\ \A i \in 1..Len(xml_trace) :
         (patentNumber /\ xml_trace[i].op = "direct") =>
            \E j \in 1..(i - 1) : xml_trace[j].op = "patentSearch"

\* C7, amended: requests are issued in the order granted-product search and
\* its files, patent-number search and its first file, application-product
\* search and its files, detail request, both searches again with their
\* files, grant URL, application URL; the search by patent number is issued
\* exactly when a patent number was supplied and the granted-product search
\* by application number answered non-OK, directly after it; a direct URL is
\* fetched only after an OK detail answer and both repeated searches; and the
\* call stops at the first valid XML.
C7_StrategyOrder ==
    /\ \A i \in 1..Len(xml_trace) : Rank(xml_trace[i]) > 0
    /\ \A i \in 1..(Len(xml_trace) - 1) :
         /\ Rank(xml_trace[i]) <= Rank(xml_trace[i + 1])
         /\ Rank(xml_trace[i]) = Rank(xml_trace[i + 1]) => xml_trace[i].op \in {"file", "refile"}
    /\ \A i \in 1..Len(xml_trace) :
         xml_trace[i].op = "patentSearch" =>
            /\ i = 2
            /\ patentNumber
            /\ xml_trace[1] = Op("search", PTGR, "nonOK", 0)
    /\ (Len(xml_trace) >= 2 /\ patentNumber /\ xml_trace[1] = Op("search", PTGR, "nonOK", 0))
         => xml_trace[2].op = "patentSearch"
    /\ \A i \in 1..Len(xml_trace) :
         xml_trace[i].op = "direct" =>
            /\ \E j \in 1..(i - 1) : xml_trace[j] = Op("detail", "", "ok", 0)
            /\ \E j \in 1..(i - 1) : xml_trace[j].op = "research" /\ xml_trace[j].product = PTGR
            /\ \E j \in 1..(i - 1) : xml_trace[j].op = "research" /\ xml_trace[j].product = APP
    /\ \A i \in 1..Len(xml_trace) :
         xml_trace[i].answer = "valid" => (i = Len(xml_trace) /\ XmlFound)
    /\ XmlFound => xml_trace[Len(xml_trace)].answer = "valid"

\* A call with a patent number whose granted-product search answered non-OK,
\* that searched by patent number and later fetched a direct URL.
C7_Witness ==
    /\ xml_pc = "done"
    /\ patentNumber
    /\ Len(xml_trace) >= 2
    /\ xml_trace[1] = Op("search", PTGR, "nonOK", 0)
    /\ xml_trace[2].op = "patentSearch"
    /\ \E i \in 1..Len(xml_trace) : xml_trace[i].op = "direct"

\* C8: when the granted-product search lists no file and the application-
\* product search lists one valid file, the result has product APPXML and
\* the fetched text as xmlContent; when a file of the granted-product search
\* is valid, the result has product PTGRXML and no request was made for the
\* application product.
C8_ProductReported ==
    /\ (/\ Len(xml_trace) = 3
        /\ xml_trace[1] = Op("search", PTGR, "ok", 0)
        /\ xml_trace[2] = Op("search", APP, "ok", 1)
        /\ xml_trace[3] = Op("file", APP, "valid", 0))
         => /\ XmlFound
            /\ xml_outcome.value.product = "APPXML"
            /\ xml_outcome.value.xmlContent = xml_last.body
    /\ (\E i \in 1..Len(xml_trace) :
            xml_trace[i] = Op("file", PTGR, "valid", 0))
         => /\ XmlFound
            /\ xml_outcome.value.product = "PTGRXML"
            /\ xml_outcome.value.xmlContent = xml_last.body
            /\ \A k \in 1..Len(xml_trace) : xml_trace[k].product # APP

\* The example of the claim: no granted file, one valid application file.
C8_Witness ==
    /\ xml_pc = "done"
    /\ patentNumber
    /\ xml_trace = << Op("search", PTGR, "ok", 0), Op("search", APP, "ok", 1),
                      Op("file", APP, "valid", 0) >>
    /\ xml_outcome.value.product = "APPXML"

\* C9 as stated: the call never raises, and it returns null only after every
\* file listed by each search was fetched, the search by patent number was
\* made when a patent number was supplied, and the direct lookup was made.
C9_NullOnlyAfterAll ==
    /\ xml_outcome.kind # "throw"
    /\ (XmlReturned /\ xml_outcome.value = Null) =>
         /\ \A i \in 1..Len(xml_trace) :
              xml_trace[i].op \in {"search", "patentSearch", "research"}
                 => FilesAfter(i) = xml_trace[i].rows
         /\ patentNumber => \E i \in 1..Len(xml_trace) : xml_trace[i].op = "patentSearch"
         /\ \E i \in 1..Len(xml_trace) : xml_trace[i].op = "detail"

\* C9, amended: the call never raises, and when it returns null no fetched
\* file was valid, both products were searched by application number with
\* the first three listed files of each fetched, a search by patent number
\* had its first listed file fetched, the detail request was made, and after
\* an OK detail answer both searches were repeated (first three files each)
\* and each direct URL whose number and date are known was fetched.
C9_NeverRaises ==
    /\ xml_outcome.kind # "throw"
    /\ (XmlReturned /\ xml_outcome.value = Null) =>
         /\ \A i \in 1..Len(xml_trace) : xml_trace[i].answer # "valid"
         /\ \A p \in {PTGR, APP} :
              \E i \in 1..Len(xml_trace) :
                 xml_trace[i].op = "search" /\ xml_trace[i].product = p
         /\ \A i \in 1..Len(xml_trace) :
              /\ xml_trace[i].op \in {"search", "research"}
                   => FilesAfter(i) = Min(xml_trace[i].rows, FilesTried)
              /\ xml_trace[i].op = "patentSearch"
                   => FilesAfter(i) = Min(xml_trace[i].rows, 1)
         /\ \E i \in 1..Len(xml_trace) : xml_trace[i].op = "detail"
         /\ (\E i \in 1..Len(xml_trace) : xml_trace[i] = Op("detail", "", "ok", 0)) =>
              /\ \A p \in {PTGR, APP} :
                   \E i \in 1..Len(xml_trace) :
                      xml_trace[i].op = "research" /\ xml_trace[i].product = p
              /\ GrantUrlDue(xml_detail) <=>
                   \E i \in 1..Len(xml_trace) : xml_trace[i] = Op("direct", PTGR, "invalid", 0)
              /\ AppUrlDue(xml_detail) <=>
                   \E i \in 1..Len(xml_trace) : xml_trace[i] = Op("direct", APP, "invalid", 0)

\* A call that returned null after a rejected request, having fetched only
\* three of the files a search listed.
C9_Witness ==
    /\ XmlReturned
    /\ xml_outcome.value = Null
    /\ \E i \in 1..Len(xml_trace) : xml_trace[i].answer = "error"
    /\ \E i \in 1..Len(xml_trace) :
         /\ xml_trace[i].op = "search"
         /\ xml_trace[i].rows > FilesTried
         /\ FilesAfter(i) = FilesTried

----------------------------------------------------------------------------
(* Properties of researchAndAnalyzeCompetitor                              *)

\* An integer in [0,100].
IsProbability(v) == v.kind = "number" /\ v.halves % 2 = 0 /\ v.halves \in 0..200

\* C1: the analysis held in table analyses, and the analysis returned, have
\* settlementProbability and every products[].infringementProbability as
\* integers in [0,100], whatever the analysis call answered.
C1_ProbabilitiesInRange ==
    /\ \A row \in analyses :
            /\ IsProbability(row.results.settlementProbability)
            /\ \A i \in 1..Len(row.results.products.items) :
                 IsProbability(row.results.products.items[i].infringementProbability)
    /\ pl_outcome.kind = "return" =>
         IsProbability(pl_outcome.value.analysis.settlementProbability)

----------------------------------------------------------------------------
(* Properties of the pipeline's parse fallbacks                            *)

\* C15: when the text of the analysis call does not parse, the run does not
\* raise: the analysis is the default one (settlementProbability 50,
\* companyRisk Medium, one neutral factor, no products), it is upserted
\* (stored unless the store reports an error) and the run returns; when the
\* text of the research call does not parse, the research is the default
\* one (the given company name, no aliases, no products) and the run goes
\* on: a raise after that comes from the competitor insert or from the
\* analysis call.
C15_ParseFallbacks ==
    /\ analysisText = "unparseable" =>
          /\ analysis.settlementProbability = Num(50)
          /\ analysis.companyRisk = "Medium"
          /\ analysis.settlementFactors = <<"neutral">>
          /\ analysis.products = List(<<>>)
          /\ pl_outcome.kind # "throw"
          /\ pl_pc \in {"persist", "done"}
          /\ pl_pc = "done" =>
                /\ pl_outcome.kind = "return"
                /\ pl_outcome.value.analysis.settlementProbability = Num(50)
                /\ pl_outcome.value.analysis.companyRisk = "Medium"
                /\ ~analysisError =>
                      \E row \in analyses :
                          row.competitor_id = competitorId /\ row.results = analysis
    /\ researchText = "unparseable" =>
          /\ research.officialName = CompanyName
          /\ research.aliases = <<>>
          /\ research.products = <<>>
          /\ pl_pc # "research"
          /\ pl_outcome.kind = "throw" =>
                (competitorId = NoId \/ analysisText \in {"throw", "null"})

\* A run in which neither text parsed and which returned, the default
\* analysis stored over the row of an earlier run.
C15_Witness ==
    /\ pl_pc = "done"
    /\ researchText = "unparseable"
    /\ analysisText = "unparseable"
    /\ pl_outcome.kind = "return"
    /\ ~analysisError
    /\ competitorId = ExistingId
    /\ analyses = {[competitor_id |-> ExistingId, status |-> "complete",
                    results |-> analysis, infringement_score |-> NegInfinity]}

----------------------------------------------------------------------------
(* Properties of the analyses table                                        *)

\* The run has returned to its caller.
Completed == pl_pc = "done" /\ pl_outcome.kind = "return"

\* C17 as stated: after a completed run the table holds one row for the
\* competitor, and its results are the analysis of that run.
C17_LatestAnalysisHeld ==
    Completed =>
        /\ Cardinality({ row \in analyses : row.competitor_id = competitorId }) = 1
        /\ \A row \in analyses : row.competitor_id = competitorId => row.results = analysis

\* C17, amended: the table never holds two rows of one competitor; a
\* completed run whose upsert reported no error leaves, as the only row of
\* its competitor, its own analysis with status complete, nothing of the
\* earlier row retained and the rows of other competitors as they were; a
\* completed run whose upsert reported an error leaves the table as it
\* found it.
C17_UpsertOverwrites ==
    /\ \A r1, r2 \in analyses : r1.competitor_id = r2.competitor_id => r1 = r2
    /\ (Completed /\ ~analysisError) =>
          \E row \in analyses :
              /\ row.competitor_id = competitorId
              /\ row.status = "complete"
              /\ row.results = analysis
              /\ analyses \ {row} = { r \in pl_before : r.competitor_id # competitorId }
    /\ (Completed /\ analysisError) => analyses = pl_before
    /\ ~Completed => analyses = pl_before

\* A completed run on a competitor that had the row of an earlier run: the
\* row now holds this run's analysis, which differs from the earlier one.
C17_Witness ==
    /\ Completed
    /\ ~analysisError
    /\ pl_before = {OldRow}
    /\ competitorId = OldRow.competitor_id
    /\ Cardinality(analyses) = 1
    /\ \A row \in analyses : row.results = analysis /\ row.results # OldRow.results

----------------------------------------------------------------------------
(* Properties of the quoted-phrase query of searchUSPTOPatents             *)

\* Some word of name n appears, whatever the case, among the applicant and
\* inventor names of the record.
SomeWordAppears(patent, n) ==
    \E k \in 1..Len(Words(ToLower(n))) : Includes(Combined(patent), Words(ToLower(n))[k])

\* The quoted-phrase query is sent only from the branch the filtered query
\* leaves with no row, and every record its answer adds to the result has
\* a word of the queried name among its applicant or inventor names.
C18_Step ==
    /\ sr_pc' = "phrase" => (sr_pc = "filter" /\ allPatents' = allPatents)
    /\ sr_pc = "phrase" =>
          \A k \in (Len(allPatents) + 1)..Len(allPatents') :
              SomeWordAppears(allPatents'[k], companyNames[sr_i])

\* C18: the quoted-phrase query for a name is issued only when the
\* applicant-name-filtered query for that name yielded zero rows, and a
\* record obtained through the quoted-phrase query is kept only if at least
\* one word of the queried name appears (case-insensitively) among the
\* record's applicant or inventor names, for every name, names made only of
\* short words included.
C18_PhraseRecordsNameTheQuery == [][C18_Step]_vars

----------------------------------------------------------------------------
(* Properties of the waits of callClaude                                   *)

RECURSIVE Sum(_)
Sum(s) == IF s = <<>> THEN 0 ELSE Head(s).value + Sum(Tail(s))

\* The header carries a number of seconds: a non-empty string of decimal
\* digits.
CarriesSeconds(h) ==
    h.present /\ h.value # <<>> /\ \A i \in 1..Len(h.value) : IsDigit(h.value[i], 10)

\* The number a string of decimal digits denotes.
RECURSIVE Seconds(_)
Seconds(digits) ==
    IF digits = <<>> THEN 0
    ELSE 10 * Seconds(SubSeq(digits, 1, Len(digits) - 1)) + DigitValue(digits[Len(digits)])

\* The waits for the answers whose header carries a number of seconds or is
\* absent or empty: the wait before retry k is 1000 ms for each second of
\* the header, and 30 s, 60 s, 90 s, 120 s for k = 1, 2, 3, 4 without one;
\* a call that returns on its third request after two 429 answers with
\* retry-after 5 has waited at least 10 s in all.
WaitScheduleForSeconds ==
    /\ Len(cl_waits) = Len(cl_headers)
    /\ Len(cl_waits) <= 4
    /\ \A k \in 1..Len(cl_waits) :
         /\ CarriesSeconds(cl_headers[k]) =>
                cl_waits[k] = Number(1000 * Seconds(cl_headers[k].value))
         /\ (~cl_headers[k].present \/ cl_headers[k].value = <<>>) =>
                /\ cl_waits[k] = Number(<<30000, 60000, 90000, 120000>>[k])
                /\ cl_waits[k].value <= 120000
    /\ (/\ cl_outcome.kind = "return"
        /\ cl_requests = 3
        /\ cl_headers = <<Header(<<"5">>), Header(<<"5">>)>>) => Sum(cl_waits) >= 10000

\* C20: the wait before retry k (k = 1..4) is the retry-after value of the
\* 429 answer, in seconds, whenever the answer carries that header: a time
\* of waiting, so a number of milliseconds that is not negative, and 1000
\* for each second when the value is a number of seconds; it is 30 s, 60 s,
\* 90 s, 120 s for k = 1, 2, 3, 4, never more than 120 s, when the answer
\* has no such header or an empty one; a call that returns on its third
\* request after two 429 answers with retry-after 5 has waited at least
\* 10 s in all.
C20_WaitSchedule ==
    /\ WaitScheduleForSeconds
    /\ \A k \in 1..Len(cl_waits) :
         (cl_headers[k].present /\ cl_headers[k].value # <<>>) =>
             ~cl_waits[k].nan /\ cl_waits[k].value >= 0

\* A call that returned on its third request after two 429 answers with
\* retry-after 5.
C20_Witness ==
    /\ cl_pc = "done"
    /\ cl_outcome.kind = "return"
    /\ cl_requests = 3
    /\ cl_429s = 2
    /\ cl_headers = <<Header(<<"5">>), Header(<<"5">>)>>
    /\ cl_waits = <<Number(5000), Number(5000)>>

----------------------------------------------------------------------------
(* Properties of parseJsonResponse                                         *)

\* The end of the brace span that opens at position a: the first position
\* at which as many braces were closed as opened; 0 when there is none.
SpanEnd(text, a) ==
    LET Opened(b) == Cardinality({ i \in a..b : text[i] = "{" })
        Closed(b) == Cardinality({ i \in a..b : text[i] = "}" })
        ends == { b \in a..Len(text) : Opened(b) = Closed(b) }
    IN IF ends = {} THEN 0 ELSE Least(ends)

\* The two stages as the claim states them: the content of the fenced json
\* block when there is one, else the first top-level {...} span, else a raise.
TwoStage(text) ==
    IF FenceMatches(text) THEN JsonParse(FenceGroup(text))
    ELSE IF Positions(text, IsOpen) # {}
            /\ SpanEnd(text, Least(Positions(text, IsOpen))) # 0
    THEN LET a == Least(Positions(text, IsOpen))
         IN JsonParse(SubSeq(text, a, SpanEnd(text, a)))
    ELSE SyntaxError

\* C11: parseJsonResponse parses the content of the fenced json block if
\* the text has one, otherwise the first top-level {...} span whatever
\* precedes and follows it, and raises when neither parses.
C11_TwoStage ==
    pj_pc = "done" => pj_outcome = TwoStage(pj_text)

----------------------------------------------------------------------------
(* Properties of extractClaimsFromXml                                      *)

\* The document has no id-carrying claim element but has a <claims> block
\* with text in it.
FallbackCase(xml) ==
    /\ IdClaimAt(xml, 1) = {}
    /\ HasClaimsBlock(xml)
    /\ \E k \in 1..Len(claimsBlock(xml)) : claimsBlock(xml)[k] \in {Word4, Word11}

\* C12 as stated: a document without id-carrying claim elements and with a
\* non-empty <claims> block yields at least one claim.
C12_FallbackYieldsClaim ==
    (cx_pc = "done" /\ FallbackCase(cx_xml)) => Len(cx_claims) >= 1

\* C12, amended: on such a document the block is split on the tags that
\* start with "<claim", and one claim is returned for each non-blank piece
\* whose text, tags removed and white space collapsed, is longer than 10
\* characters, numbered by the position of the piece; so at least one claim
\* is returned exactly when some piece has such a text.
C12_FallbackKeepsLongPieces ==
    (cx_pc = "done" /\ FallbackCase(cx_xml)) =>
        LET pieces == singleClaims(cx_xml)
            long == { i \in 1..Len(pieces) : Len(CleanText(pieces[i])) > 10 }
        IN /\ Len(cx_claims) = Cardinality(long)
           /\ \A k \in 1..Len(cx_claims) :
                /\ cx_claims[k].number \in long
                /\ cx_claims[k].text = CleanText(pieces[cx_claims[k].number])
                /\ Len(cx_claims[k].text) > 10
           /\ \A k \in 1..(Len(cx_claims) - 1) : cx_claims[k].number < cx_claims[k + 1].number

\* A document whose block holds a short piece that is dropped and a long
\* piece that is kept.
C12_Witness ==
    /\ cx_pc = "done"
    /\ FallbackCase(cx_xml)
    /\ Len(cx_claims) = 1
    /\ cx_claims[1].number = 2
    /\ \E i \in 1..Len(singleClaims(cx_xml)) :
         Len(CleanText(singleClaims(cx_xml)[i])) \in 1..10

----------------------------------------------------------------------------
(* Properties of the competitor_documents table                            *)

\* One step leaves every document as it was or deletes it, and gives out
\* no id twice.
C14_Step ==
    /\ Len(st_docs') >= Len(st_docs)
    /\ \A id \in 1..Len(st_docs) :
         /\ st_docs[id].status \in {"xml_available", "verified"} =>
                st_docs'[id].status # "pending_extraction"
         /\ st_docs'[id] \in {st_docs[id], Deleted}

\* C14: over any sequence of statements on the store (pipeline inserts,
\* onboarding and batch inserts, deletes, the XML viewer) the status of a
\* competitor document never moves backwards: a document whose status is
\* xml_available or verified never later has status pending_extraction.
C14_StatusNeverReverts == [][C14_Step]_vars

\* A competitor that has a document with XML, a verified product and, added
\* after them, a document pending extraction; the viewer has read the first.
C14_Witness ==
    /\ Len(st_docs) = 3
    /\ st_docs[1].status = "xml_available"
    /\ st_docs[2].status = "verified"
    /\ st_docs[3].status = "pending_extraction"
    /\ st_docs[3].competitor_id = st_docs[1].competitor_id
    /\ st_docs[2].competitor_id = st_docs[1].competitor_id
    /\ st_viewed

----------------------------------------------------------------------------
(* Properties of discoverProductUrls                                       *)

\* The positions of list that hold the first occurrence of their URL.
FirstOccurrences(list) ==
    { i \in 1..Len(list) : \A j \in 1..(i - 1) : list[j].url # list[i].url }

\* C19: discoverProductUrls never raises; it returns at most 10 entries with
\* pairwise distinct URLs: the PDF candidates followed by the page
\* candidates, of which the first occurrence of each URL is kept, cut after
\* the tenth; and it returns the empty list when the fetch of the site
\* fails or answers non-OK.
C19_AtMostTenDistinct ==
    dp_pc = "done" =>
        LET result == dp_outcome.value
            merged == discoveredUrls(dp_html)
            first == FirstOccurrences(merged)
        IN /\ dp_outcome.kind = "return"
           /\ Len(result) <= 10
           /\ \A i, j \in 1..Len(result) : result[i].url = result[j].url => i = j
           /\ dp_response # "ok" => result = <<>>
           /\ dp_response = "ok" =>
                /\ Len(result) = IF Cardinality(first) < 10 THEN Cardinality(first) ELSE 10
                /\ \A k \in 1..Len(result) :
                     \E i \in first :
                         /\ result[k] = merged[i]
                         /\ Cardinality({ j \in first : j < i }) = k - 1

\* A page with eleven distinct candidates and one repeated: ten entries are
\* returned, the repeated URL once, with the description of its first
\* occurrence.
C19_Witness ==
    /\ dp_pc = "done"
    /\ dp_response = "ok"
    /\ Len(dp_outcome.value) = 10
    /\ Cardinality(FirstOccurrences(discoveredUrls(dp_html))) > 10
    /\ Len(discoveredUrls(dp_html)) > Cardinality(FirstOccurrences(discoveredUrls(dp_html)))
    /\ dp_outcome.value[1].description = <<"Product Page">>

----------------------------------------------------------------------------
(* Properties of the batch handlers                                        *)

\* The request is one the handler takes up: its body can be read, its
\* user is known (onboarding) and it names a competitor.
Accepted == bt_readable /\ bt_user /\ bt_competitors # <<>>

\* C16: in both batch handlers a failure while one competitor is processed
\* is caught per item: the response holds one entry per competitor of the
\* request, in the request's order; the entry of a competitor whose
\* processing failed has success false and the error message; the
\* competitors after it are processed; and the processed count is the
\* number of entries with success true.
C16_FailuresPerItem ==
    (bt_pc = "done" /\ Accepted) =>
        /\ bt_response.status = 200
        /\ Len(bt_response.results) = Len(bt_competitors)
        /\ Len(bt_fates) = Len(bt_competitors)
        /\ \A k \in 1..Len(bt_competitors) :
             /\ bt_response.results[k].name = bt_competitors[k]
             /\ bt_response.results[k].success = (bt_fates[k] = "ok")
             /\ bt_fates[k] # "ok" => bt_response.results[k].error # <<>>
        /\ bt_response.processed =
              Cardinality({ k \in 1..Len(bt_competitors) : bt_response.results[k].success })

\* The same for what does hold: one entry per competitor in order, a failed
\* insert of the competitor row reported on its entry, the count of the
\* entries with success true; in onboarding a failed research is reported
\* on its entry as well.
C16_EntriesPerItem ==
    (bt_pc = "done" /\ Accepted) =>
        /\ bt_response.status = 200
        /\ Len(bt_response.results) = Len(bt_competitors)
        /\ Len(bt_fates) = Len(bt_competitors)
        /\ \A k \in 1..Len(bt_competitors) :
             /\ bt_response.results[k].name = bt_competitors[k]
             /\ bt_fates[k] = "ok" => bt_response.results[k].success
             /\ bt_fates[k] = "insert error" =>
                   ~bt_response.results[k].success /\ bt_response.results[k].error # <<>>
             /\ (bt_fates[k] = "research fails" /\ bt_handler = "onboarding") =>
                   ~bt_response.results[k].success /\ bt_response.results[k].error # <<>>
        /\ bt_response.processed =
              Cardinality({ k \in 1..Len(bt_competitors) : bt_response.results[k].success })

----------------------------------------------------------------------------
(* Properties of the order of the steps of researchAndAnalyzeCompetitor    *)

\* The phase a position of the function belongs to, in the order of the
\* code: researching, created, products, patents, analyzed, persisted.
PhaseOf(pc) ==
    CASE pc = "begin" -> 0
      [] pc = "research" -> 1
      [] pc = "competitor" -> 2
      [] pc \in {"productCheck", "productInsert"} -> 3
      [] pc \in {"patentSearch", "patentCheck", "patentInsert"} -> 4
      [] pc = "analyze" -> 5
      [] pc = "persist" -> 6
      [] OTHER -> 7

\* The step appends a document of the given type.
WritesDocument(type) ==
    /\ Len(competitor_documents') = Len(competitor_documents) + 1
    /\ competitor_documents'[Len(competitor_documents')].document_type = type

\* The step issues the web-research call.
IssuesResearchCall == pl_pc = "research" /\ pl_pc' # pl_pc

\* One step of a run: the phase never decreases and each write is made in
\* its own phase, for a competitor whose row exists.
OrderedStep ==
    /\ PhaseOf(pl_pc') >= PhaseOf(pl_pc)
    /\ competitors' # competitors => pl_pc = "competitor"
    /\ competitor_documents' # competitor_documents =>
          /\ WritesDocument("product_service") \/ WritesDocument("patent")
          /\ competitorId \in competitors
    /\ WritesDocument("product_service") => pl_pc = "productInsert"
    /\ WritesDocument("patent") => pl_pc = "patentInsert"
    /\ analyses' # analyses => pl_pc = "persist" /\ pl_pc' = "done"
    /\ pl_pc = "done" =>
          UNCHANGED <<competitors, competitor_documents, analyses>>

\* C21 as stated: the phases are passed in order, every product document is
\* written before the registry search, every patent document before the
\* analysis call, the analysis upsert is the last write, and the
\* competitor row exists when the web-research call is issued.
C21_RowBeforeResearch ==
    [][OrderedStep /\ (IssuesResearchCall => competitorId \in competitors)]_vars

\* C21, amended: the phases are passed in the order researching, created,
\* products, patents, analyzed, persisted and never backwards; every
\* product document is written before the registry search, every patent
\* document before the analysis call, and the analysis upsert is the last
\* write of the run.  The competitor row exists before the web-research
\* call only when the caller gave existingCompetitorId; otherwise it is
\* inserted after that call, before any document is written.
C21_PhasesInOrder ==
    [][/\ OrderedStep
       /\ (IssuesResearchCall /\ existingCompetitorId # NoId) =>
              competitorId \in competitors
       /\ (IssuesResearchCall /\ existingCompetitorId = NoId) =>
              competitorId \notin competitors]_vars

\* A run without existingCompetitorId that has inserted the competitor, a
\* product document and a patent document, in that order, and has upserted
\* its analysis.
C21_Witness ==
    /\ pl_pc = "done"
    /\ pl_outcome.kind = "return"
    /\ existingCompetitorId = NoId
    /\ competitorId = NewId
    /\ NewId \in competitors
    /\ ~analysisError
    /\ Len(competitor_documents) = 2
    /\ competitor_documents[1].document_type = "product_service"
    /\ competitor_documents[2].document_type = "patent"
    /\ \E row \in analyses : row.competitor_id = NewId

----------------------------------------------------------------------------
(* Properties of the scores cached at step 7                               *)

\* The probabilities of the products of an analysis, none when the analysis
\* has no product list.
ProductProbabilities(a) ==
    IF a.products.defined
    THEN [i \in 1..Len(a.products.items) |-> a.products.items[i].infringementProbability]
    ELSE <<>>

\* v is the largest of the numbers of list s.
IsMaximumOf(v, s) ==
    /\ \E i \in 1..Len(s) : s[i] = v
    /\ \A i \in 1..Len(s) : s[i].kind = "number" /\ s[i].halves <= v.halves

\* v is the integer nearest to the mean of the numbers of list s.
IsRoundedMeanOf(v, s) ==
    /\ v.kind = "number"
    /\ v.halves % 2 = 0
    /\ \A i \in 1..Len(s) : s[i].kind = "number"
    /\ LET n == Len(s)
           total == SumHalves(s)
       IN  n * v.halves - n <= total /\ total < n * v.halves + n

\* C22 as stated: the score cached in table analyses is the maximum, and
\* the overallInfringement returned is the rounded mean, of the
\* infringementProbability of the products of the analysis the run holds;
\* both are numbers in [0,100], and both are 0 when there are no products.
C22_CachedScores ==
    (Completed /\ ~analysisError) =>
        \A row \in analyses :
            row.competitor_id = competitorId =>
                LET s == ProductProbabilities(analysis)
                    overall == pl_outcome.value.analysis.overallInfringement
                IN  /\ row.infringement_score.kind = "number"
                    /\ row.infringement_score.halves \in 0..200
                    /\ overall.kind = "number"
                    /\ overall.halves \in 0..200
                    /\ IF Len(s) = 0
                       THEN row.infringement_score = Num(0) /\ overall = Num(0)
                       ELSE /\ IsMaximumOf(row.infringement_score, s)
                            /\ IsRoundedMeanOf(overall, s)

----------------------------------------------------------------------------
(* Properties of the XML field extractors                                  *)

\* The cleaned content of the first match of each pattern of a list, and
\* whether the pattern matches at all.
Cleaned(xml, tag) == CleanText(Match(xml, tag).group)

\* The text an extractor returns when it returns the cleaned content of
\* the first pattern of the list whose content is longer than min, and the
\* empty string when there is none.
FirstQualifying(xml, patterns, min) ==
    LET ks == { k \in 1..Len(patterns) :
                  Match(xml, patterns[k]).found /\ Len(Cleaned(xml, patterns[k])) > min }
    IN  IF ks = {} THEN <<>> ELSE Cleaned(xml, patterns[Least(ks)])

\* C23 as stated: each of the two extractors returns the cleaned text of
\* the first pattern of its list whose cleaned content exceeds the minimum
\* length (10 characters for the abstract, empty excluded for the
\* description), passing over a pattern that matches an empty or too-short
\* element, and the empty string when no pattern qualifies.
C23_FirstQualifyingPattern ==
    fx_pc = "done" =>
        /\ fx_abstract = FirstQualifying(fx_xml, AbstractPatterns, MinAbstractLength)
        /\ fx_description = FirstQualifying(fx_xml, DescriptionPatterns, 0)

\* The abstract alone does what C23 says.
C23_AbstractQualifies ==
    fx_pc = "done" =>
        fx_abstract = FirstQualifying(fx_xml, AbstractPatterns, MinAbstractLength)

----------------------------------------------------------------------------
(* Properties of the acceptance test of tryFetchXml                        *)

\* The last step was a fetch of an XML file and the call returned its body.
LastFetchAccepted ==
    /\ XmlFound
    /\ xml_outcome.value.xmlContent = xml_last.body

\* C24 as stated: a fetched body is accepted exactly when the response is
\* OK, the body is longer than 100 characters and it holds a '<'.
C24_AcceptedOver100 ==
    xml_last.kind # "none" =>
        (LastFetchAccepted <=>
            /\ xml_last.kind = "ok"
            /\ xml_last.body.len > 100
            /\ xml_last.body.lt)

\* C24, amended: a fetched body is accepted exactly when the response is
\* OK, the body has at least 100 characters and it holds a '<'; a body of
\* 99 characters or fewer, or one without '<', or a response that is not
\* OK or fails, is rejected and the call goes on (it has not returned a
\* result).
C24_AcceptedFrom100 ==
    xml_last.kind # "none" =>
        /\ LastFetchAccepted <=>
              /\ xml_last.kind = "ok"
              /\ xml_last.body.len >= 100
              /\ xml_last.body.lt
        /\ ~LastFetchAccepted => ~XmlFound

\* A body of exactly 100 characters with a '<' was fetched and returned.
C24_Witness ==
    /\ xml_last.kind = "ok"
    /\ xml_last.body.len = 100
    /\ xml_last.body.lt
    /\ xml_pc = "done"
    /\ LastFetchAccepted

----------------------------------------------------------------------------
(* Properties of resolvePatentIdentifiers                                  *)

\* The grant number and the publication number the detail response carries.
CarriedPatentNumber(md) == OrElse(md.patentNumber, md.grantDocumentIdentifier)
CarriedPublicationNumber(md) == OrElse(md.publicationNumber, md.pgpubDocumentIdentifier)

\* The fields of a record other than the three the resolver may fill.
OtherFields(p) == <<p.applicationNumberText, p.patentTitle>>

\* What holds of every call: it returns, a field the input has is kept,
\* the other fields are those of the input, and the input comes back as it
\* is when the detail request fails or is not OK.
ResolverFrame ==
    /\ rs_outcome.kind = "return"
    /\ \A f \in {"patentNumber", "publicationNumber", "grantDate"} :
         rs_patent[f] # Absent => rs_outcome.value[f] = rs_patent[f]
    /\ OtherFields(rs_outcome.value) = OtherFields(rs_patent)
    /\ rs_detail.kind \in {"rejects", "nonOK", "json rejects"} =>
         rs_outcome.value = rs_patent

\* C27 as stated: each of patentNumber and publicationNumber that the
\* input lacks is what the detail endpoint carries for it; a field the
\* input has is never changed; nothing but patentNumber, publicationNumber
\* and grantDate differs from the input; a failed or non-OK detail call
\* gives the input back, and nothing is raised.
C27_FillsEachAbsent ==
    rs_pc = "done" =>
        /\ ResolverFrame
        /\ rs_detail.kind \notin {"rejects", "nonOK", "json rejects"} =>
             /\ rs_patent.patentNumber = Absent =>
                  /\ rs_detail.kind = "ok"
                  /\ rs_outcome.value.patentNumber = CarriedPatentNumber(rs_detail.md)
             /\ rs_patent.publicationNumber = Absent =>
                  /\ rs_detail.kind = "ok"
                  /\ rs_outcome.value.publicationNumber = CarriedPublicationNumber(rs_detail.md)

\* C27, amended: the detail request is made exactly when the input lacks
\* patentNumber.  Then, after an OK response, patentNumber is what the
\* response carries, and publicationNumber, if the input lacks it too, is
\* what the response carries.  An input that has patentNumber is returned
\* as it is without a request, its publicationNumber left absent if it was.
\* In every case a field the input has is kept, nothing but patentNumber,
\* publicationNumber and grantDate differs, a failed or non-OK detail call
\* gives the input back, and nothing is raised.
C27_FillsWhenNoGrantNumber ==
    rs_pc = "done" =>
        /\ ResolverFrame
        /\ (rs_detail.kind = "none") <=> (rs_patent.patentNumber # Absent)
        /\ rs_detail.kind = "none" => rs_outcome.value = rs_patent
        /\ rs_detail.kind = "ok" =>
             /\ rs_outcome.value.patentNumber = CarriedPatentNumber(rs_detail.md)
             /\ rs_patent.publicationNumber = Absent =>
                  rs_outcome.value.publicationNumber = CarriedPublicationNumber(rs_detail.md)
             /\ rs_patent.grantDate = Absent =>
                  rs_outcome.value.grantDate = rs_detail.md.grantDate

\* The input lacks patentNumber and has publicationNumber; the response
\* carries both: the grant number is filled from grantDocumentIdentifier
\* and the publication number is the input's.
C27_Witness ==
    /\ rs_pc = "done"
    /\ rs_patent.patentNumber = Absent
    /\ rs_patent.publicationNumber # Absent
    /\ rs_detail.kind = "ok"
    /\ rs_detail.md.patentNumber = Absent
    /\ rs_detail.md.grantDocumentIdentifier # Absent
    /\ rs_detail.md.publicationNumber # Absent
    /\ rs_outcome.value.patentNumber = rs_detail.md.grantDocumentIdentifier
    /\ rs_outcome.value.publicationNumber = rs_patent.publicationNumber

----------------------------------------------------------------------------
(* Properties of the URL check of the products                             *)

\* The k-th product document the run has written.
ProductDocOfRun(k) ==
    competitor_documents[Len(competitor_documents) - patentsFound - productsAdded + k]

\* The HEAD request of the k-th product document was answered OK.
CheckSucceeded(k) == pl_checks[k].head.kind = "ok"

\* What C25 says of status and page body, for every product document of
\* the run: verified exactly when the HEAD check of its URL succeeded,
\* ai_researched otherwise, the body fetched exactly for a live URL that is
\* not a PDF.
StatusFollowsCheck ==
    /\ Len(pl_checks) = productsAdded
    /\ \A k \in 1..productsAdded :
         /\ ProductDocOfRun(k).document_type = "product_service"
         /\ ProductDocOfRun(k).status =
                IF CheckSucceeded(k) THEN "verified" ELSE "ai_researched"
         /\ pl_checks[k].url = NoUrl => ~CheckSucceeded(k)
         /\ pl_checks[k].fetched <=>
                (CheckSucceeded(k) /\ ~Includes(pl_checks[k].head.contentType, <<"p", "d", "f">>))

\* C25 as stated: the status follows the check, the body is fetched only
\* for a live URL that is not a PDF, and a claimed URL that failed the
\* check is never the source_url of the document.
C25_FailedUrlNeverStored ==
    /\ StatusFollowsCheck
    /\ \A k \in 1..productsAdded :
         (pl_checks[k].url # NoUrl /\ ~CheckSucceeded(k)) =>
             ProductDocOfRun(k).source_url # pl_checks[k].url

\* C25, amended: the status follows the check and the body is fetched only
\* for a live URL that is not a PDF; the source_url of a document is the
\* claimed URL when its check succeeded, and otherwise the website of the
\* competitor, or null when the research gave none: a claimed URL that
\* failed the check is stored as source_url exactly when it is that
\* website.
C25_StatusFollowsCheck ==
    /\ StatusFollowsCheck
    /\ \A k \in 1..productsAdded :
         /\ CheckSucceeded(k) => ProductDocOfRun(k).source_url = pl_checks[k].url
         /\ ~CheckSucceeded(k) =>
              ProductDocOfRun(k).source_url =
                  IF research.websiteUrl # NoUrl THEN research.websiteUrl ELSE "null"

\* A run that stored two products: the first with a URL that answered OK
\* with a page, verified and with its body fetched; the second without a
\* URL, stored as ai_researched under the website of the competitor.
C25_Witness ==
    /\ pl_pc = "done"
    /\ productsAdded = 2
    /\ CheckSucceeded(1)
    /\ pl_checks[1].fetched
    /\ ProductDocOfRun(1).status = "verified"
    /\ ProductDocOfRun(1).source_url = PageUrl
    /\ pl_checks[2].url = NoUrl
    /\ ProductDocOfRun(2).status = "ai_researched"
    /\ ProductDocOfRun(2).source_url = SiteUrl

----------------------------------------------------------------------------
(* Properties of the values written to competitor_documents                *)

\* The statuses and the document types the specification lists.
ListedStatuses ==
    {"verified", "ai_researched", "xml_available", "metadata_only",
     "pending_extraction", "fetch_failed"}

ListedTypes == {"product_service", "product_page", "pdf", "uploaded", "patent"}

\* C26 as stated: every competitor document written by the pipeline, by
\* the onboarding route or by the research-batch route has one of the six
\* listed statuses and one of the five listed document types.
C26_ListedStatusesOnly ==
    \A id \in 1..Len(st_docs) :
        st_docs[id] # Deleted =>
            /\ st_docs[id].status \in ListedStatuses
            /\ st_docs[id].document_type \in ListedTypes

\* C26, amended: every competitor document written by one of the three
\* flows has one of the six listed statuses or the status extracted, which
\* the research-batch route gives to a document whose PDF it fetched and
\* extracted, and one of the listed document types; pending_extraction,
\* extracted and fetch_failed go with type pdf, verified and ai_researched
\* with type product_service, xml_available and metadata_only with type
\* patent.
C26_StatusesWritten ==
    \A id \in 1..Len(st_docs) :
        st_docs[id] # Deleted =>
            /\ st_docs[id].status \in ListedStatuses \cup {"extracted"}
            /\ st_docs[id].document_type \in ListedTypes
            /\ st_docs[id].status \in {"pending_extraction", "extracted", "fetch_failed"}
                   <=> st_docs[id].document_type = "pdf"
            /\ st_docs[id].status \in {"verified", "ai_researched"}
                   <=> st_docs[id].document_type = "product_service"
            /\ st_docs[id].status \in {"xml_available", "metadata_only"}
                   <=> st_docs[id].document_type = "patent"

\* A competitor with a document of each flow: one pending extraction from
\* onboarding, one extracted by the research-batch route, one verified
\* product of the pipeline.
C26_Witness ==
    /\ Len(st_docs) = 3
    /\ st_docs[1].status = "pending_extraction"
    /\ st_docs[2].status = "extracted"
    /\ st_docs[3].status = "verified"
    /\ st_docs[2].competitor_id = st_docs[1].competitor_id
    /\ st_docs[3].competitor_id = st_docs[1].competitor_id

----------------------------------------------------------------------------
(* Repeated and interleaved runs on one competitor's documents             *)

BothDone == \A r \in Runs : rn_pc[r] = "done"

\* Two documents of the competitor with the same product name, or with the
\* same application number.
DuplicateDocuments ==
    \E j, k \in 1..Len(rn_docs) :
        /\ j < k
        /\ rn_docs[j].competitor_id = rn_docs[k].competitor_id
        /\ rn_docs[j].document_type = rn_docs[k].document_type
        /\ \/ /\ rn_docs[j].document_type = "product_service"
              /\ rn_docs[j].document_name = rn_docs[k].document_name
           \/ /\ rn_docs[j].document_type = "patent"
              /\ rn_docs[j].application_number = rn_docs[k].application_number

\* The second run began after the first had completed with its inserts
\* succeeding, and has completed too.
RerunCompleted(first, second) ==
    /\ first # second
    /\ rn_first = {first}
    /\ ~rn_overlap
    /\ BothDone
    /\ first \notin rn_insertFailed

\* C28: a second run that begins after the first has completed with its
\* inserts succeeding, and receives the same research products and registry
\* results, inserts no document (productsAdded = 0 and patentsFound = 0),
\* and the competitor holds no two product documents of one name and no two
\* patent documents of one application number.
C28_RerunInsertsNothing ==
    \A first, second \in Runs :
        RerunCompleted(first, second) =>
            /\ rn_productsAdded[second] = 0
            /\ rn_patentsFound[second] = 0
            /\ ~DuplicateDocuments

\* The same for runs in which every existence query was answered.
RerunWithAnsweredQueries ==
    \A first, second \in Runs :
        RerunCompleted(first, second) /\ rn_checkFailed = {} =>
            /\ rn_productsAdded[second] = 0
            /\ rn_patentsFound[second] = 0
            /\ ~DuplicateDocuments

\* C29: nothing but the run's own earlier query stands between an insert
\* and a duplicate: the competitor comes to hold two documents of one
\* product name or one application number only when the runs interleaved
\* (or a query failed), and two interleaved runs whose queries were all
\* answered can both insert the same document.
C29_DuplicatesFromInterleaving ==
    DuplicateDocuments => rn_overlap \/ rn_checkFailed # {}

\* Two interleaved runs, every query answered and every insert made, have
\* each inserted the document of the same product and of the same patent.
C29_Witness ==
    /\ BothDone
    /\ rn_overlap
    /\ rn_checkFailed = {}
    /\ rn_insertFailed = {}
    /\ DuplicateDocuments
    /\ \A r \in Runs : rn_productsAdded[r] > 0 /\ rn_patentsFound[r] > 0

----------------------------------------------------------------------------
(* What a normal return says about the analyses table                      *)

\* The summary fields of a ResearchResult computed from stored results.
SummaryOf(results) ==
    [settlementProbability |-> results.settlementProbability,
     companyRisk |-> results.companyRisk,
     overallInfringement |-> avgScore(productScores(results))]

\* C30: whenever the run returns normally, the analyses table holds a row
\* for the returned competitorId with status complete whose results are the
\* analysis from which the returned summary (settlementProbability,
\* companyRisk, overallInfringement) was computed.
C30_ReturnedAnalysisStored ==
    Completed =>
        \E row \in analyses :
            /\ row.competitor_id = pl_outcome.value.competitorId
            /\ row.status = "complete"
            /\ row.results = analysis
            /\ pl_outcome.value.analysis = SummaryOf(row.results)

\* The same for the runs whose upsert reported no error.
ReturnedAnalysisStoredUnlessError ==
    Completed /\ ~analysisError =>
        \E row \in analyses :
            /\ row.competitor_id = pl_outcome.value.competitorId
            /\ row.status = "complete"
            /\ row.results = analysis
            /\ pl_outcome.value.analysis = SummaryOf(row.results)

====
